---- MODULE Spec2Model ----
(***************************************************************************)
(* Model of the extension-submission core of flip-dev-portal:              *)
(*   - parseZipContents (src/api/index.js): the embedded ZIP reader and    *)
(*     the path normalisation at its end;                                  *)
(*   - validateManifest / validateFiles (src/lib/validate.js);             *)
(*   - the handler of POST /submit (src/api/index.js) that runs them and   *)
(*     hands an accepted submission to the blob store and the database.    *)
(*                                                                         *)
(* Strings are sequences of character codes (a file name is decoded from   *)
(* the buffer's bytes), a Buffer is a byte sequence plus a run of zero     *)
(* bytes at its end, a JavaScript value is a record tagged with its type.  *)
(***************************************************************************)
EXTENDS Integers, Sequences, FiniteSets, TLC

VARIABLES
    upload,          \* the archive as it was packed: its entries and the damage done to it
    buffer,          \* the uploaded archive (Buffer)
    pc,              \* position in the submit handler, parseZipContents, the validators
    eocdOffset,      \* let eocdOffset
    cdEntries,       \* const cdEntries
    cdOffset,        \* let cdOffset
    i,               \* loop counter of the central-directory walk
    fileList,        \* const fileList = []  (pushed to in place)
    manifest,        \* let manifest = null
    faulted,         \* an exception reached the catch block of parseZipContents
    result,          \* the {manifest, fileList} pair parseZipContents returns
    manifestResult,  \* validateManifest's return value
    filesResult,     \* validateFiles' return value
    extId,           \* const extId
    blob,            \* const blob
    response,        \* what the handler rendered (res.render), or that nothing was yet
    blobs,           \* the blob store: what put() has stored
    submissions,     \* the submissions table: what db.createSubmission() has inserted
    current,         \* the request whose handler is running
    parked           \* the requests whose handlers are not running: their locals

vars == <<upload, buffer, pc, eocdOffset, cdEntries, cdOffset, i, fileList, manifest,
          faulted, result, manifestResult, filesResult, extId, blob, response, blobs,
          submissions, current, parked>>

----------------------------------------------------------------------------
(* Bounds of the model.                                                     *)

\* most entries of a well-formed input archive
MaxEntries == 3
\* most entries of an input archive that is then damaged
MaxDamagedEntries == 2
\* most paths of a file list handed to the path normalisation
MaxPaths == 3
\* most entries of a short file list handed to validateFiles
MaxFiles == 2

----------------------------------------------------------------------------
(* Strings: sequences of character codes.                                   *)

SLASH == <<47>>
S_manifest_json == <<109, 97, 110, 105, 102, 101, 115, 116, 46, 106, 115, 111, 110>>
S_slash_manifest_json == SLASH \o S_manifest_json
S_main_js == <<109, 97, 105, 110, 46, 106, 115>>                        \* main.js
S_myext == <<109, 121, 101, 120, 116>>                                  \* myext
S_other == <<111, 116, 104, 101, 114>>                                  \* other
S_lib_util_js == <<108, 105, 98, 47, 117, 116, 105, 108, 46, 106, 115>> \* lib/util.js

RECURSIVE Concat(_)
Concat(ss) == IF ss = <<>> THEN <<>> ELSE Head(ss) \o Concat(Tail(ss))

\* String.prototype.endsWith
EndsWith(s, suffix) ==
    /\ Len(suffix) <= Len(s)
    /\ SubSeq(s, Len(s) - Len(suffix) + 1, Len(s)) = suffix

\* String.prototype.startsWith
StartsWith(s, prefix) ==
    /\ Len(prefix) <= Len(s)
    /\ SubSeq(s, 1, Len(prefix)) = prefix

\* String.prototype.slice(n), 0 <= n
Slice(s, n) == SubSeq(s, n + 1, Len(s))

\* s.split('/')[0]: the text before the first '/', all of s when it has none
FirstSegment(s) ==
    LET slashes == {k \in 1..Len(s) : s[k] = 47}
    IN  IF slashes = {} THEN s
        ELSE SubSeq(s, 1, (CHOOSE k \in slashes : \A m \in slashes : k <= m) - 1)

----------------------------------------------------------------------------
(* JavaScript values.                                                       *)

Undefined == [t |-> "undefined"]
Null      == [t |-> "null"]
Bool(b)   == [t |-> "boolean", b |-> b]
Num(n)    == [t |-> "number", n |-> n]
Str(s)    == [t |-> "string", s |-> s]
Arr(a)    == [t |-> "array", a |-> a]
Obj(o)    == [t |-> "object", o |-> o]

\* ToBoolean: what `!v`, `v &&` and `if (v)` test
Truthy(v) ==
    CASE v.t = "undefined" -> FALSE
      [] v.t = "null"      -> FALSE
      [] v.t = "boolean"   -> v.b
      [] v.t = "number"    -> v.n # 0
      [] v.t = "string"    -> v.s # <<>>
      [] OTHER             -> TRUE

\* the properties a manifest object may carry; an absent one reads undefined
ManifestKeys ==
    {"name", "version", "description", "author", "main", "type", "permissions",
     "icon", "category", "api_version"}
NoProps == [k \in ManifestKeys |-> Undefined]
EmptyObject == Obj(NoProps)

\* JSON.parse, over the JSON the inputs carry: objects, arrays, strings
\* without escape sequences, unsigned integers of at most nine digits and the
\* three literals, with white space between the tokens.  A text that is not
\* one such document followed by nothing is a SyntaxError.
JSONFail == [t |-> "SyntaxError"]

RECURSIVE DigitsValue(_)
DigitsValue(s) ==
    IF s = <<>> THEN 0 ELSE 10 * DigitsValue(SubSeq(s, 1, Len(s) - 1)) + (s[Len(s)] - 48)

IsJSONNumber(s) ==
    /\ Len(s) \in 1..9
    /\ \A k \in 1..Len(s) : s[k] \in 48..57
    /\ (Len(s) > 1 => s[1] # 48)

\* the property names as they are spelled in a document
KeyText ==
    [ name        |-> <<110, 97, 109, 101>>,
      version     |-> <<118, 101, 114, 115, 105, 111, 110>>,
      description |-> <<100, 101, 115, 99, 114, 105, 112, 116, 105, 111, 110>>,
      author      |-> <<97, 117, 116, 104, 111, 114>>,
      main        |-> <<109, 97, 105, 110>>,
      type        |-> <<116, 121, 112, 101>>,
      permissions |-> <<112, 101, 114, 109, 105, 115, 115, 105, 111, 110, 115>>,
      icon        |-> <<105, 99, 111, 110>>,
      category    |-> <<99, 97, 116, 101, 103, 111, 114, 121>>,
      api_version |-> <<97, 112, 105, 95, 118, 101, 114, 115, 105, 111, 110>> ]

WhiteSpace == {32, 9, 10, 13}

RECURSIVE SkipWhiteSpace(_, _)
SkipWhiteSpace(s, p) ==
    IF p <= Len(s) /\ s[p] \in WhiteSpace THEN SkipWhiteSpace(s, p + 1) ELSE p

\* the outcome of reading one value: it ends before position next
Unparsed == [ok |-> FALSE]
Parsed(v, next) == [ok |-> TRUE, v |-> v, next |-> next]

\* the position of the quote that closes a string whose text starts at p; 0
\* when there is none
RECURSIVE StringEnd(_, _)
StringEnd(s, p) ==
    IF p > Len(s) THEN 0
    ELSE IF s[p] = 34 THEN p
    ELSE IF s[p] = 92 \/ s[p] < 32 THEN 0
    ELSE StringEnd(s, p + 1)

ParseString(s, p) ==
    LET e == StringEnd(s, p + 1)
    IN  IF e = 0 THEN Unparsed ELSE Parsed(Str(SubSeq(s, p + 1, e - 1)), e + 1)

RECURSIVE DigitsEnd(_, _)
DigitsEnd(s, p) == IF p <= Len(s) /\ s[p] \in 48..57 THEN DigitsEnd(s, p + 1) ELSE p

ParseNumber(s, p) ==
    LET e == DigitsEnd(s, p)
    IN  IF IsJSONNumber(SubSeq(s, p, e - 1))
        THEN Parsed(Num(DigitsValue(SubSeq(s, p, e - 1))), e)
        ELSE Unparsed

ParseLiteral(s, p, text, v) ==
    IF p + Len(text) - 1 <= Len(s) /\ SubSeq(s, p, p + Len(text) - 1) = text
    THEN Parsed(v, p + Len(text))
    ELSE Unparsed

RECURSIVE ParseValue(_, _)
RECURSIVE ParseElements(_, _, _)
RECURSIVE ParseMembers(_, _, _)

\* the elements of an array, from the one that starts at p
ParseElements(s, p, acc) ==
    LET r == ParseValue(s, p)
        q == SkipWhiteSpace(s, r.next)
    IN  IF ~r.ok \/ q > Len(s) THEN Unparsed
        ELSE IF s[q] = 44 THEN ParseElements(s, q + 1, Append(acc, r.v))
        ELSE IF s[q] = 93 THEN Parsed(Arr(Append(acc, r.v)), q + 1)
        ELSE Unparsed

\* the members of an object, from the one that starts at p; a member whose
\* name is none of ManifestKeys is read and left out, a repeated name takes
\* its last value
ParseMembers(s, p, acc) ==
    LET q    == SkipWhiteSpace(s, p)
        k    == ParseString(s, q)
        c    == SkipWhiteSpace(s, k.next)
        r    == ParseValue(s, c + 1)
        d    == SkipWhiteSpace(s, r.next)
        keys == {key \in ManifestKeys : KeyText[key] = k.v.s}
        acc2 == [key \in ManifestKeys |-> IF key \in keys THEN r.v ELSE acc[key]]
    IN  IF q > Len(s) \/ s[q] # 34 THEN Unparsed
        ELSE IF ~k.ok \/ c > Len(s) \/ s[c] # 58 THEN Unparsed
        ELSE IF ~r.ok \/ d > Len(s) THEN Unparsed
        ELSE IF s[d] = 44 THEN ParseMembers(s, d + 1, acc2)
        ELSE IF s[d] = 125 THEN Parsed(Obj(acc2), d + 1)
        ELSE Unparsed

ParseValue(s, p) ==
    LET q == SkipWhiteSpace(s, p)
        n == SkipWhiteSpace(s, q + 1)
    IN  IF q > Len(s) THEN Unparsed
        ELSE CASE s[q] = 34  -> ParseString(s, q)
               [] s[q] = 91  -> IF n <= Len(s) /\ s[n] = 93
                                THEN Parsed(Arr(<<>>), n + 1)
                                ELSE ParseElements(s, q + 1, <<>>)
               [] s[q] = 123 -> IF n <= Len(s) /\ s[n] = 125
                                THEN Parsed(Obj(NoProps), n + 1)
                                ELSE ParseMembers(s, q + 1, NoProps)
               [] s[q] = 116 -> ParseLiteral(s, q, <<116, 114, 117, 101>>, Bool(TRUE))
               [] s[q] = 102 -> ParseLiteral(s, q, <<102, 97, 108, 115, 101>>, Bool(FALSE))
               [] s[q] = 110 -> ParseLiteral(s, q, <<110, 117, 108, 108>>, Null)
               [] s[q] \in 48..57 -> ParseNumber(s, q)
               [] OTHER -> Unparsed

JSONParse(raw) ==
    LET r == ParseValue(raw, 1)
    IN  IF r.ok /\ SkipWhiteSpace(raw, r.next) > Len(raw) THEN r.v ELSE JSONFail

----------------------------------------------------------------------------
(* Buffer: Node's Buffer over the uploaded bytes.                           *)

BufLen(b) == Len(b.bytes) + b.tail
ByteAt(b, off) == IF off < Len(b.bytes) THEN b.bytes[off + 1] ELSE 0

\* readUInt16LE / readUInt32LE throw a RangeError unless the whole integer
\* lies inside the buffer
ReadOK(b, off, n) == off >= 0 /\ off + n <= BufLen(b)
\* (the fields the inputs carry stay below 2^31, the checker's integer range)
ReadUInt16LE(b, off) == ByteAt(b, off) + 256 * ByteAt(b, off + 1)
ReadUInt32LE(b, off) ==
    ByteAt(b, off) + 256 * ByteAt(b, off + 1) + 65536 * ByteAt(b, off + 2)
        + 16777216 * ByteAt(b, off + 3)

\* buffer.readUInt32LE(off) === sig, compared byte by byte (the integer read
\* at an arbitrary offset need not fit the checker's integers)
SigAt(b, off, sig) ==
    /\ ByteAt(b, off) = sig % 256
    /\ ByteAt(b, off + 1) = (sig \div 256) % 256
    /\ ByteAt(b, off + 2) = (sig \div 65536) % 256
    /\ ByteAt(b, off + 3) = sig \div 16777216

\* one byte decoded as UTF-8: ASCII is itself, a stray high byte is U+FFFD
Utf8Char(byte) == IF byte < 128 THEN byte ELSE 65533

\* buffer.toString('utf-8', start, end): start and end are clamped to the
\* buffer, an empty or inverted range is the empty string; it never throws
BufToString(b, start, end) ==
    LET e == IF end > BufLen(b) THEN BufLen(b) ELSE end
    IN  IF start >= e THEN <<>>
        ELSE [k \in 1..(e - start) |-> Utf8Char(ByteAt(b, start + k - 1))]

----------------------------------------------------------------------------
(* parseZipContents: the ZIP reader.                                        *)

EOCD_SIG == 101010256    \* 0x06054b50
CD_SIG   == 33639248     \* 0x02014b50
LFH_SIG  == 67324752     \* 0x04034b50
EOCD_MIN == 22           \* the search starts at buffer.length - 22
EOCD_WINDOW == 65557     \* ... and ends at max(0, buffer.length - 65557)
CD_FIXED == 46           \* fixed part of a central-directory entry
LFH_FIXED == 30          \* fixed part of a local file header

Max(a, b) == IF a >= b THEN a ELSE b

\* faulty variant: the search runs forward, from the start of the window
FindEOCDForward(b) ==
    LET hits == {off \in Max(0, BufLen(b) - EOCD_WINDOW)..(BufLen(b) - EOCD_MIN) :
                    SigAt(b, off, EOCD_SIG)}
    IN  IF hits = {} THEN -1
        ELSE CHOOSE off \in hits : \A o \in hits : o >= off

\* the backward search for the End Of Central Directory record: the first hit
\* of a loop that counts down is the greatest offset of the range that holds
\* the signature; -1 when none does.  Every offset of the range is readable.
FindEOCD(b) ==
    LET hits == {off \in Max(0, BufLen(b) - EOCD_WINDOW)..(BufLen(b) - EOCD_MIN) :
                    SigAt(b, off, EOCD_SIG)}
    IN  IF hits = {} THEN -1
        ELSE CHOOSE off \in hits : \A o \in hits : o <= off

\* faulty variant: the exception leaves parseZipContents
CatchRethrows == "raised"

\* where control goes when a statement of the try block throws: the catch
\* block logs and falls through to the normalisation
CatchTarget == "normalize"

\* faulty variant: a name already in the list is not pushed again
PushNameOnce(fl, fileName) ==
    IF EndsWith(fileName, SLASH) \/ (\E k \in 1..Len(fl) : fl[k] = fileName)
    THEN fl ELSE Append(fl, fileName)

\* faulty variant: the name of a manifest entry is not listed
PushNameUnlessManifest(fl, fileName) ==
    IF \/ EndsWith(fileName, SLASH)
       \/ fileName = S_manifest_json
       \/ EndsWith(fileName, S_slash_manifest_json)
    THEN fl ELSE Append(fl, fileName)

\* if (!fileName.endsWith('/')) fileList.push(fileName)
PushName(fl, fileName) ==
    IF EndsWith(fileName, SLASH) THEN fl ELSE Append(fl, fileName)

\* fileName === 'manifest.json' || fileName.match(/^[^/]+\/manifest\.json$/)
IsManifestName(fileName) ==
    \/ fileName = S_manifest_json
    \/ /\ EndsWith(fileName, S_slash_manifest_json)
       /\ Len(fileName) > Len(S_slash_manifest_json)
       /\ \A k \in 1..(Len(fileName) - Len(S_slash_manifest_json)) : fileName[k] # 47

\* faulty variant: the guard without `&& !manifest`
WantsManifestAlways(fileName, m) == IsManifestName(fileName)

\* the guard of the manifest extraction
WantsManifest(fileName, m) == IsManifestName(fileName) /\ ~Truthy(m)

\* try { manifest = JSON.parse(raw); } catch {}
ParseManifest(m, raw) ==
    IF JSONParse(raw) = JSONFail THEN m ELSE JSONParse(raw)

\* faulty variant: the bytes are parsed whatever the compression method
ExtractManifestAnyMethod(b, lfhOffset, m) ==
    IF ~ReadOK(b, lfhOffset, 4) THEN [fault |-> TRUE, manifest |-> m]
    ELSE IF ~SigAt(b, lfhOffset, LFH_SIG) THEN [fault |-> FALSE, manifest |-> m]
    ELSE IF ~ReadOK(b, lfhOffset + 26, 4) \/ ~ReadOK(b, lfhOffset + 8, 2)
            \/ ~ReadOK(b, lfhOffset + 18, 4)
         THEN [fault |-> TRUE, manifest |-> m]
    ELSE LET dataStart == lfhOffset + LFH_FIXED + ReadUInt16LE(b, lfhOffset + 26)
                              + ReadUInt16LE(b, lfhOffset + 28)
         IN  [fault |-> FALSE,
              manifest |-> ParseManifest(m, BufToString(b, dataStart,
                                            dataStart + ReadUInt32LE(b, lfhOffset + 18)))]

\* The manifest extraction from the local file header at lfhOffset.
\* [fault, manifest]: fault when one of its integer reads throws.
ExtractManifest(b, lfhOffset, m) ==
    IF ~ReadOK(b, lfhOffset, 4) THEN [fault |-> TRUE, manifest |-> m]
    ELSE IF ~SigAt(b, lfhOffset, LFH_SIG) THEN [fault |-> FALSE, manifest |-> m]
    ELSE IF \/ ~ReadOK(b, lfhOffset + 26, 2)
            \/ ~ReadOK(b, lfhOffset + 28, 2)
            \/ ~ReadOK(b, lfhOffset + 8, 2)
            \/ ~ReadOK(b, lfhOffset + 18, 4)
         THEN [fault |-> TRUE, manifest |-> m]
    ELSE LET lfnLen     == ReadUInt16LE(b, lfhOffset + 26)
             lextraLen  == ReadUInt16LE(b, lfhOffset + 28)
             compMethod == ReadUInt16LE(b, lfhOffset + 8)
             compSize   == ReadUInt32LE(b, lfhOffset + 18)
             dataStart  == lfhOffset + LFH_FIXED + lfnLen + lextraLen
         IN  IF compMethod = 0
             THEN [fault |-> FALSE,
                   manifest |-> ParseManifest(m, BufToString(b, dataStart, dataStart + compSize))]
             ELSE [fault |-> FALSE, manifest |-> m]

\* One iteration of the central-directory loop at cursor cd with the lists as
\* they are: kind is "break" (signature mismatch), "fault" (a read threw) or
\* "next"; fileList and manifest are what the iteration left behind.
WalkIteration(b, cd, fl, m) ==
    IF ~ReadOK(b, cd, 4)
    THEN [kind |-> "fault", fileList |-> fl, manifest |-> m, cdOffset |-> cd]
    ELSE IF ~SigAt(b, cd, CD_SIG)
    THEN [kind |-> "break", fileList |-> fl, manifest |-> m, cdOffset |-> cd]
    ELSE IF \/ ~ReadOK(b, cd + 28, 2)
            \/ ~ReadOK(b, cd + 30, 2)
            \/ ~ReadOK(b, cd + 32, 2)
            \/ ~ReadOK(b, cd + 42, 4)
    THEN [kind |-> "fault", fileList |-> fl, manifest |-> m, cdOffset |-> cd]
    ELSE
      LET fnLen       == ReadUInt16LE(b, cd + 28)
          extraLen    == ReadUInt16LE(b, cd + 30)
          commentLen  == ReadUInt16LE(b, cd + 32)
          localOffset == ReadUInt32LE(b, cd + 42)
          fileName    == BufToString(b, cd + CD_FIXED, cd + CD_FIXED + fnLen)
          pushed      == PushName(fl, fileName)
          ex          == IF WantsManifest(fileName, m)
                         THEN ExtractManifest(b, localOffset, m)
                         ELSE [fault |-> FALSE, manifest |-> m]
      IN  IF ex.fault
          THEN [kind |-> "fault", fileList |-> pushed, manifest |-> m, cdOffset |-> cd]
          ELSE [kind |-> "next", fileList |-> pushed, manifest |-> ex.manifest,
                cdOffset |-> cd + CD_FIXED + fnLen + extraLen + commentLen]

\* faulty variant: every entry loses its own first folder, whichever it is
NormalizePathsOwnFolder(fl) ==
    IF fl # <<>> /\ ~(\E k \in 1..Len(fl) : fl[k] = S_manifest_json)
    THEN IF \A k \in 1..Len(fl) : StartsWith(fl[k], FirstSegment(fl[k]) \o SLASH)
         THEN [k \in 1..Len(fl) |-> Slice(fl[k], Len(FirstSegment(fl[k])) + 1)]
         ELSE fl
    ELSE fl

\* faulty variant: the prefix is the first segment without its separator
NormalizePathsNoSeparator(fl) ==
    IF fl # <<>> /\ ~(\E k \in 1..Len(fl) : fl[k] = S_manifest_json)
    THEN LET prefix == FirstSegment(fl[1])
         IN  IF \A k \in 1..Len(fl) : StartsWith(fl[k], prefix)
             THEN [k \in 1..Len(fl) |-> Slice(fl[k], Len(prefix))]
             ELSE fl
    ELSE fl

\* The path normalisation at the end of parseZipContents.
NormalizePaths(fl) ==
    IF fl # <<>> /\ ~(\E k \in 1..Len(fl) : fl[k] = S_manifest_json)
    THEN LET prefix == FirstSegment(fl[1]) \o SLASH
         IN  IF \A k \in 1..Len(fl) : StartsWith(fl[k], prefix)
             THEN [k \in 1..Len(fl) |-> Slice(fl[k], Len(prefix))]
             ELSE fl
    ELSE fl

NoResult == [t |-> "pending"]
\* what the reader does not touch: the handler's other locals, the stores and
\* the other requests
HandlerUnchanged ==
    UNCHANGED <<extId, blob, response, blobs, submissions, current, parked>>
ParseUnchanged ==
    /\ UNCHANGED <<upload, buffer, manifestResult, filesResult>>
    /\ HandlerUnchanged

\* lines 469-477: the EOCD search; `throw new Error('Invalid zip file')` when
\* it finds nothing
LocateEOCD ==
    /\ pc = "start"
    /\ LET off == FindEOCD(buffer)
       IN  IF off < 0
           THEN /\ pc' = CatchTarget
                /\ faulted' = TRUE
                /\ UNCHANGED <<eocdOffset, cdEntries, cdOffset>>
           ELSE /\ eocdOffset' = off
                /\ cdEntries' = ReadUInt16LE(buffer, off + 10)
                /\ cdOffset' = ReadUInt32LE(buffer, off + 16)
                /\ pc' = "walk"
                /\ UNCHANGED faulted
    /\ UNCHANGED <<i, fileList, manifest, result>>
    /\ ParseUnchanged

\* line 479: the loop condition fails
WalkDone ==
    /\ pc = "walk"
    /\ i >= cdEntries
    /\ pc' = "normalize"
    /\ UNCHANGED <<eocdOffset, cdEntries, cdOffset, i, fileList, manifest, faulted, result>>
    /\ ParseUnchanged

\* lines 480-507: an iteration that runs to its end
WalkEntry ==
    /\ pc = "walk"
    /\ i < cdEntries
    /\ LET it == WalkIteration(buffer, cdOffset, fileList, manifest)
       IN  /\ it.kind = "next"
           /\ fileList' = it.fileList
           /\ manifest' = it.manifest
           /\ cdOffset' = it.cdOffset
    /\ i' = i + 1
    /\ UNCHANGED <<eocdOffset, cdEntries, pc, faulted, result>>
    /\ ParseUnchanged

\* faulty variant: an entry signature that does not match is an error
WalkBreakRaises ==
    /\ pc = "walk"
    /\ i < cdEntries
    /\ WalkIteration(buffer, cdOffset, fileList, manifest).kind = "break"
    /\ pc' = CatchTarget
    /\ faulted' = TRUE
    /\ UNCHANGED <<eocdOffset, cdEntries, cdOffset, i, fileList, manifest, result>>
    /\ ParseUnchanged

\* line 480: the entry signature does not match, break
WalkBreak ==
    /\ pc = "walk"
    /\ i < cdEntries
    /\ WalkIteration(buffer, cdOffset, fileList, manifest).kind = "break"
    /\ pc' = "normalize"
    /\ UNCHANGED <<eocdOffset, cdEntries, cdOffset, i, fileList, manifest, faulted, result>>
    /\ ParseUnchanged

\* faulty variant: the catch block empties the list and drops the manifest
WalkFaultClears ==
    /\ pc = "walk"
    /\ i < cdEntries
    /\ WalkIteration(buffer, cdOffset, fileList, manifest).kind = "fault"
    /\ fileList' = <<>>
    /\ manifest' = Null
    /\ pc' = CatchTarget
    /\ faulted' = TRUE
    /\ UNCHANGED <<eocdOffset, cdEntries, cdOffset, i, result>>
    /\ ParseUnchanged

\* lines 480-496 and 509-511: a read throws inside the loop; the catch block
\* keeps what the iteration had done up to the throw
WalkFault ==
    /\ pc = "walk"
    /\ i < cdEntries
    /\ LET it == WalkIteration(buffer, cdOffset, fileList, manifest)
       IN  /\ it.kind = "fault"
           /\ fileList' = it.fileList
           /\ manifest' = it.manifest
    /\ pc' = CatchTarget
    /\ faulted' = TRUE
    /\ UNCHANGED <<eocdOffset, cdEntries, cdOffset, i, result>>
    /\ ParseUnchanged

\* lines 513-522: normalise the paths and return
Normalize ==
    /\ pc = "normalize"
    /\ result' = [manifest |-> manifest, fileList |-> NormalizePaths(fileList)]
    /\ pc' = "done"
    /\ UNCHANGED <<eocdOffset, cdEntries, cdOffset, i, fileList, manifest, faulted>>
    /\ ParseUnchanged

----------------------------------------------------------------------------
(* The uploads: archives laid out as src/api/index.js reads them (local     *)
(* file headers with their data, then the central directory, then the EOCD  *)
(* record), whole or damaged in one place.                                  *)

LE16(n) == <<n % 256, n \div 256>>
LE32(n) == <<n % 256, (n \div 256) % 256, (n \div 65536) % 256, n \div 16777216>>
Zeros(n) == [k \in 1..n |-> 0]

Entry(name, method, data) == [name |-> name, method |-> method, data |-> data]

\* what the entries of an upload are drawn from
EntryKinds ==
    { Entry(S_manifest_json, 0, <<123, 125>>),                    \* manifest.json  {}
      Entry(S_manifest_json, 0, <<123>>),                         \* manifest.json  {   (malformed)
      Entry(S_manifest_json, 0, <<48>>),                          \* manifest.json  0
      Entry(S_manifest_json, 8, <<123, 125>>),                    \* manifest.json, DEFLATE
      Entry(<<97>> \o S_slash_manifest_json, 0, <<49>>),          \* a/manifest.json  1
      Entry(<<97>> \o S_slash_manifest_json, 8, <<49>>),          \* a/manifest.json, DEFLATE
      Entry(<<97, 47, 98>> \o S_slash_manifest_json, 0, <<91, 93>>), \* a/b/manifest.json  []
      Entry(<<97, 47, 109, 46, 106, 115>>, 0, <<>>),              \* a/m.js
      Entry(<<97, 47>>, 0, <<>>),                                 \* a/   (a directory)
      Entry(<<109, 46, 106, 115>>, 0, <<>>) }                     \* m.js

EntrySeqs(n) == UNION {[1..k -> EntryKinds] : k \in 0..n}

NoDamage == [kind |-> "none", at |-> 0]
\* damage to the archive as a whole, and to its k-th entry
Damages(n) ==
    [kind : {"empty", "short", "chop", "nosig", "tail", "countMore", "cdoff"}, at : {0}]
        \cup [kind : {"countLess"}, at : {k \in {0} : n > 0}]
        \cup [kind : {"cdsig", "extra", "loff", "lsig", "csize"}, at : 1..n]

\* an offset or length beyond every input buffer
FAR == 256 * 65536 - 1

LocalHeader(e, k, d) ==
    Concat(<< LE32(IF d = [kind |-> "lsig", at |-> k] THEN 0 ELSE LFH_SIG),
              Zeros(4), LE16(e.method), Zeros(8),
              LE32(IF d = [kind |-> "csize", at |-> k] THEN FAR ELSE Len(e.data)),
              LE32(Len(e.data)), LE16(Len(e.name)), LE16(0), e.name, e.data >>)

LocalSize(e) == LFH_FIXED + Len(e.name) + Len(e.data)

RECURSIVE LocalOffsetOf(_, _)
LocalOffsetOf(es, k) == IF k = 1 THEN 0 ELSE LocalOffsetOf(es, k - 1) + LocalSize(es[k - 1])

CentralEntry(es, k, d) ==
    Concat(<< LE32(IF d = [kind |-> "cdsig", at |-> k] THEN 0 ELSE CD_SIG),
              Zeros(6), LE16(es[k].method), Zeros(8),
              LE32(Len(es[k].data)), LE32(Len(es[k].data)), LE16(Len(es[k].name)),
              LE16(IF d = [kind |-> "extra", at |-> k] THEN 65535 ELSE 0),
              LE16(0), Zeros(8),
              LE32(IF d = [kind |-> "loff", at |-> k] THEN FAR ELSE LocalOffsetOf(es, k)),
              es[k].name >>)

CentralStart(es) == LocalOffsetOf(es, Len(es) + 1)

EndRecord(es, d) ==
    LET n == CASE d.kind = "countMore" -> Len(es) + 1
               [] d.kind = "countLess" -> Len(es) - 1
               [] OTHER -> Len(es)
    IN  Concat(<< LE32(IF d.kind = "nosig" THEN 0 ELSE EOCD_SIG), Zeros(4),
                  LE16(n), LE16(n), Zeros(4),
                  LE32(IF d.kind = "cdoff" THEN FAR ELSE CentralStart(es)),
                  LE16(CASE d.kind = "tail" -> 3
                         [] d.kind \in {"longComment", "beyondWindow"} -> 65535
                         [] d.kind = "secondEnd" -> EOCD_MIN
                         [] OTHER -> 0) >>)

Whole(es, d) ==
    Concat([k \in 1..Len(es) |-> LocalHeader(es[k], k, d)])
        \o Concat([k \in 1..Len(es) |-> CentralEntry(es, k, d)])
        \o EndRecord(es, d)

\* the bytes uploaded for entries es with damage d
Pack(es, d) ==
    LET w == Whole(es, d)
    IN  CASE d.kind = "empty" -> [bytes |-> <<>>, tail |-> 0]
          [] d.kind = "short" -> [bytes |-> SubSeq(w, Len(w) - 20, Len(w)), tail |-> 0]
          [] d.kind = "chop"  -> [bytes |-> SubSeq(w, 1, Len(w) - 1), tail |-> 0]
          [] d.kind = "tail"  -> [bytes |-> w, tail |-> 3]
          [] d.kind = "longComment"  -> [bytes |-> w, tail |-> 65535]
          [] d.kind = "beyondWindow" -> [bytes |-> w, tail |-> 65536]
          [] d.kind = "secondEnd"    -> [bytes |-> w \o EndRecord(<<>>, NoDamage), tail |-> 0]
          [] OTHER            -> [bytes |-> w, tail |-> 0]

Uploads ==
    { [entries |-> es, damage |-> NoDamage] : es \in EntrySeqs(MaxEntries) }
        \cup UNION { { [entries |-> es, damage |-> d] : d \in Damages(Len(es)) }
                     : es \in EntrySeqs(MaxDamagedEntries) }

----------------------------------------------------------------------------
(* Spec: parseZipContents on every upload.                                  *)

\* no request but the running one, and empty stores
Alone ==
    /\ blobs = {}
    /\ submissions = <<>>
    /\ current = 1
    /\ parked = <<>>

Idle ==
    /\ eocdOffset = -1
    /\ cdEntries = 0
    /\ cdOffset = 0
    /\ i = 0
    /\ faulted = FALSE
    /\ manifestResult = NoResult
    /\ filesResult = NoResult
    /\ extId = Undefined
    /\ blob = Undefined
    /\ response = NoResult
    /\ Alone

Init ==
    /\ upload \in Uploads
    /\ buffer = Pack(upload.entries, upload.damage)
    /\ pc = "start"
    /\ fileList = <<>>
    /\ manifest = Null
    /\ result = NoResult
    /\ Idle

Next ==
    \/ LocateEOCD
    \/ WalkEntry
    \/ WalkBreak
    \/ WalkFault
    \/ WalkDone
    \/ Normalize

Spec == Init /\ [][Next]_vars

----------------------------------------------------------------------------
(* What the claims about the reader are stated in: the upload as packed.    *)

Entries == upload.entries
Intact == upload.damage = NoDamage
Returned == pc = "done"

SlashCount(s) == Cardinality({k \in 1..Len(s) : s[k] = 47})

\* manifest.json at the root of the archive, or inside one folder
ShallowManifest(name) ==
    \/ name = S_manifest_json
    \/ /\ SlashCount(name) = 1
       /\ name[1] # 47
       /\ \E p \in 2..Len(name) : name[p] = 47 /\ SubSeq(name, p + 1, Len(name)) = S_manifest_json

IsDirectory(name) == name # <<>> /\ name[Len(name)] = 47

\* the names of the first n entries that are no directories, in directory order
FileNames(es, n) ==
    SelectSeq([k \in 1..n |-> es[k].name], LAMBDA name : ~IsDirectory(name))

\* the structured data an entry's bytes are, JSONFail when they are none
DocValue(e) == JSONParse(e.data)

Least(S) == CHOOSE k \in S : \A m \in S : k <= m

IsPrefix(s, u) == Len(s) <= Len(u) /\ SubSeq(u, 1, Len(s)) = s

\* the entries that can supply a manifest: shallow name, STORED, bytes that
\* parse to a truthy value
Suppliers(es) ==
    {k \in 1..Len(es) : /\ ShallowManifest(es[k].name)
                        /\ es[k].method = 0
                        /\ DocValue(es[k]) # JSONFail
                        /\ Truthy(DocValue(es[k]))}

\* the shallow manifest entries whose local header says STORED
StoredManifests(es) ==
    {k \in 1..Len(es) : ShallowManifest(es[k].name) /\ es[k].method = 0}

----------------------------------------------------------------------------
(* C1. parseZipContents never raises and always returns a {manifest,        *)
(* fileList} pair: control is only ever at a statement of the function or   *)
(* past its return, the walk never passes the declared entry count and      *)
(* every step brings the return nearer (C1_Measure falls); when a read      *)
(* throws, the                                                              *)
(* walk stops there (control goes to the normalisation), the names pushed   *)
(* before the throw stay in the list and the manifest stays as it was, and  *)
(* that manifest and those names (through the path normalisation) are what  *)
(* is returned.                                                             *)
C1_Positions ==
    /\ pc \in {"start", "walk", "normalize", "done"}
    /\ i <= cdEntries
    /\ (pc = "done" => /\ DOMAIN result = {"manifest", "fileList"}
                       /\ result.manifest = manifest
                       /\ result.fileList = NormalizePaths(fileList))

C1_FaultKeeps ==
    (~faulted /\ faulted') =>
        /\ pc' = "normalize"
        /\ IsPrefix(fileList, fileList')
        /\ manifest' = manifest

\* the steps left at most: a u16 entry count bounds the walk
C1_Measure ==
    CASE pc = "start"     -> 65535 + 3
      [] pc = "walk"      -> (cdEntries - i) + 2
      [] pc = "normalize" -> 1
      [] OTHER            -> 0

C1_Progress == C1_Measure' < C1_Measure

C1_NeverRaises == [](C1_Positions) /\ [][C1_FaultKeeps /\ C1_Progress]_vars

\* a read threw after names had been collected, and they were returned
C1_Witness == Returned /\ faulted /\ Len(fileList) >= 2 /\ Len(result.fileList) >= 2


----------------------------------------------------------------------------
(* C2 (as claimed). The returned manifest comes only from the first shallow *)
(* manifest entry whose local header is STORED: it is that entry's parsed   *)
(* bytes, or none when they do not parse or no such entry exists.           *)
C2_FirstStoredOnly ==
    (Returned /\ Intact) =>
        LET st == StoredManifests(Entries)
        IN  IF st = {} \/ DocValue(Entries[Least(st)]) = JSONFail
            THEN result.manifest = Null
            ELSE result.manifest = DocValue(Entries[Least(st)])

(* C2 (amended). The manifest comes from the first shallow manifest entry   *)
(* that is STORED and whose bytes parse to a truthy value; an earlier       *)
(* STORED one whose bytes do not parse, or parse to a falsy value, leaves   *)
(* the next matching entry to supply it.  The manifest changes only in a    *)
(* walk step, only while it is still falsy, and only to the parsed bytes of *)
(* the entry under the cursor, which is a STORED manifest.json at depth 0   *)
(* or 1: a truthy manifest is never replaced and an entry two or more       *)
(* segments deep never supplies one.                                        *)
C2_Returned ==
    (Returned /\ Intact) =>
        IF Suppliers(Entries) # {}
        THEN result.manifest = DocValue(Entries[Least(Suppliers(Entries))])
        ELSE ~Truthy(result.manifest)

C2_Capture ==
    (manifest' # manifest) =>
        /\ ~Truthy(manifest)
        /\ pc = "walk"
        /\ i + 1 \in StoredManifests(Entries)
        /\ manifest' = DocValue(Entries[i + 1])

C2_FirstTruthyStored == [](C2_Returned) /\ [][C2_Capture]_vars

\* a STORED manifest whose bytes gave nothing precedes the entry that
\* supplied the returned manifest
C2_Witness ==
    /\ Returned /\ Intact /\ Truthy(result.manifest)
    /\ Suppliers(Entries) # {}
    /\ \E k \in StoredManifests(Entries) : k < Least(Suppliers(Entries))
    /\ \E k \in Suppliers(Entries) : k > Least(Suppliers(Entries))

----------------------------------------------------------------------------
(* C3. For an intact archive whose manifest entry (the first entry with a   *)
(* shallow manifest name) is a root-level manifest.json, STORED, with bytes *)
(* that parse to a truthy value, the reader returns exactly that parsed     *)
(* value, and the file list is the names of all central-directory entries   *)
(* that do not end in '/', in directory order, duplicates kept.             *)
RootManifestCase ==
    /\ Intact
    /\ \E k \in 1..Len(Entries) : ShallowManifest(Entries[k].name)
    /\ LET first == Least({k \in 1..Len(Entries) : ShallowManifest(Entries[k].name)})
       IN  /\ Entries[first].name = S_manifest_json
           /\ first \in Suppliers(Entries)

C3_ExactManifestAndFiles ==
    (Returned /\ RootManifestCase) =>
        /\ result.manifest =
             DocValue(Entries[Least({k \in 1..Len(Entries) : ShallowManifest(Entries[k].name)})])
        /\ result.fileList = FileNames(Entries, Len(Entries))
        /\ ~faulted

\* a root manifest next to a duplicated file name and a directory entry
C3_Witness ==
    /\ Returned /\ RootManifestCase
    /\ \E j, k \in 1..Len(result.fileList) : j # k /\ result.fileList[j] = result.fileList[k]
    /\ \E k \in 1..Len(Entries) : IsDirectory(Entries[k].name)


----------------------------------------------------------------------------
(* C4 (as claimed). Whenever a read faulted, at whatever point of the       *)
(* parse, the returned manifest is none and the returned list is empty.     *)
C4_FaultGivesNothing ==
    (Returned /\ faulted) => (result.manifest = Null /\ result.fileList = <<>>)

(* C4 (amended). A fault gives "no manifest / empty list" only when it      *)
(* comes before the first central-directory entry is read: no EOCD record   *)
(* (empty, short or truncated buffer, no signature) or a central-directory  *)
(* offset outside the buffer.  A fault after that keeps what the walk had   *)
(* done: the names of the entries up to and including the one the damage is *)
(* at are returned (normalised), with the manifest captured among them.     *)
EarlyDamage == {"empty", "short", "chop", "nosig", "cdoff"}

C4_FaultKeepsProcessed ==
    (Returned /\ faulted) =>
        IF upload.damage.kind \in EarlyDamage
        THEN result = [manifest |-> Null, fileList |-> <<>>]
        ELSE LET at == upload.damage.at
                 s  == {k \in Suppliers(Entries) :
                           k <= at /\ ~(upload.damage.kind = "loff" /\ k = at)}
             IN  /\ upload.damage.kind \in {"extra", "loff"}
                 /\ fileList = FileNames(Entries, at)
                 /\ result.fileList = NormalizePaths(FileNames(Entries, at))
                 /\ IF s # {} THEN result.manifest = DocValue(Entries[Least(s)])
                    ELSE ~Truthy(result.manifest)

\* a fault after an entry was processed: its name and manifest are returned
C4_Witness ==
    /\ Returned /\ faulted
    /\ result.fileList # <<>>
    /\ Truthy(result.manifest)

----------------------------------------------------------------------------
(* C5. In an intact archive whose shallow manifest entries are each either  *)
(* compressed (method other than 0) or STORED with bytes that do not parse, *)
(* the reader returns manifest = none without a fault, every entry is       *)
(* walked, each manifest path is in the reader's file list, and the result  *)
(* is one and the same function of the entry names in both cases.           *)
Unreadable(e) == e.method # 0 \/ DocValue(e) = JSONFail

UnreadableManifestCase ==
    /\ Intact
    /\ \E k \in 1..Len(Entries) : ShallowManifest(Entries[k].name)
    /\ \A k \in 1..Len(Entries) : ShallowManifest(Entries[k].name) => Unreadable(Entries[k])

C5_UnreadableManifestIsNone ==
    (Returned /\ UnreadableManifestCase) =>
        /\ ~faulted
        /\ i = Len(Entries)
        /\ fileList = FileNames(Entries, Len(Entries))
        /\ \A k \in 1..Len(Entries) :
              ShallowManifest(Entries[k].name) =>
                  \E j \in 1..Len(fileList) : fileList[j] = Entries[k].name
        /\ result = [manifest |-> Null,
                     fileList |-> NormalizePaths(FileNames(Entries, Len(Entries)))]

\* a compressed manifest and a malformed one, followed by another entry
C5_Witness ==
    /\ Returned /\ UnreadableManifestCase
    /\ \E k \in 1..Len(Entries) : ShallowManifest(Entries[k].name) /\ Entries[k].method # 0
    /\ \E k \in 1..Len(Entries) :
          /\ ShallowManifest(Entries[k].name)
          /\ Entries[k].method = 0
          /\ k < Len(Entries)
          /\ ~ShallowManifest(Entries[Len(Entries)].name)


----------------------------------------------------------------------------
(* SpecNorm: the path normalisation (lines 513-522) on file lists drawn     *)
(* from a pool of paths; the reader never lists a name that ends in '/'.    *)

PathPool ==
    { S_manifest_json,
      S_main_js,
      S_myext \o S_slash_manifest_json,                 \* myext/manifest.json
      S_myext \o SLASH \o S_main_js,                    \* myext/main.js
      S_myext \o SLASH \o S_lib_util_js,                \* myext/lib/util.js
      S_myext \o <<47, 108, 105, 98>> \o S_slash_manifest_json, \* myext/lib/manifest.json
      S_other \o SLASH \o S_main_js,                    \* other/main.js
      S_myext,                                          \* myext   (no separator)
      SLASH \o S_main_js }                              \* /main.js (empty first segment)

PathLists == UNION {[1..n -> PathPool] : n \in 0..MaxPaths}

NoUpload == [entries |-> <<>>, damage |-> NoDamage]

InitNorm ==
    /\ upload = NoUpload
    /\ buffer = Pack(<<>>, NoDamage)
    /\ pc = "normalize"
    /\ fileList \in PathLists
    /\ manifest = Null
    /\ result = NoResult
    /\ Idle

SpecNorm == InitNorm /\ [][Normalize]_vars

\* the first n characters of s are a path segment and a separator follows
HasFolder(s, n) ==
    /\ n < Len(s)
    /\ s[n + 1] = 47
    /\ \A k \in 1..n : s[k] # 47

\* every entry lies in one and the same top-level folder
SharedFolder(L) ==
    /\ L # <<>>
    /\ \E n \in 0..Len(L[1]) :
          \A k \in 1..Len(L) : HasFolder(L[k], n) /\ SubSeq(L[k], 1, n) = SubSeq(L[1], 1, n)

ShouldStrip(L) ==
    /\ \A k \in 1..Len(L) : L[k] # S_manifest_json
    /\ SharedFolder(L)

\* out is L with the first segment and its separator taken off every entry
StrippedOf(L, out) ==
    /\ Len(out) = Len(L)
    /\ \A k \in 1..Len(L) :
          \E n \in 0..Len(L[k]) : HasFolder(L[k], n) /\ L[k] = SubSeq(L[k], 1, n + 1) \o out[k]

(* C6. The normaliser takes the first path segment and its separator off    *)
(* every entry exactly when no entry equals manifest.json and all entries   *)
(* lie in one and the same first segment (a segment followed by its         *)
(* separator); otherwise the list is returned unchanged.  The stripped list *)
(* has the length and the order of the input, and                           *)
(* [myext/manifest.json, myext/main.js] becomes [manifest.json, main.js].   *)
C6_StripsSharedFolder ==
    Returned =>
        /\ IF ShouldStrip(fileList)
           THEN StrippedOf(fileList, result.fileList)
           ELSE result.fileList = fileList
        /\ (fileList = <<S_myext \o S_slash_manifest_json, S_myext \o SLASH \o S_main_js>>
               => result.fileList = <<S_manifest_json, S_main_js>>)

C6_Witness ==
    /\ Returned
    /\ ShouldStrip(fileList)
    /\ fileList = <<S_myext \o S_slash_manifest_json, S_myext \o SLASH \o S_main_js>>
    /\ result.fileList = <<S_manifest_json, S_main_js>>

----------------------------------------------------------------------------
(* C7 (as claimed). Normalising the normaliser's output gives that output   *)
(* again, for every list.                                                   *)
C7_Idempotent ==
    Returned => NormalizePaths(result.fileList) = result.fileList

(* C7 (amended). One application takes off one folder level.  Normalising   *)
(* the output again gives the output back exactly when the output holds     *)
(* manifest.json or its entries do not lie in one shared first segment; in  *)
(* particular for every list that holds a manifest.json at the root or one  *)
(* folder deep, and for every list the first application left unchanged.    *)
(* A list whose entries share two nested leading folders is stripped once   *)
(* more by the second application.                                          *)
C7_IdempotentUnlessNested ==
    Returned =>
        /\ (NormalizePaths(result.fileList) = result.fileList) <=> ~ShouldStrip(result.fileList)
        /\ ((\E k \in 1..Len(fileList) : ShallowManifest(fileList[k]))
               => NormalizePaths(result.fileList) = result.fileList)
        /\ (result.fileList = fileList => NormalizePaths(result.fileList) = result.fileList)

\* a list holding a manifest one folder deep was stripped, and is now stable
C7_Witness ==
    /\ Returned
    /\ result.fileList # fileList
    /\ \E k \in 1..Len(fileList) : ShallowManifest(fileList[k])
    /\ NormalizePaths(result.fileList) = result.fileList


----------------------------------------------------------------------------
(* validateManifest and validateFiles (src/lib/validate.js).                *)

S_storage == <<115, 116, 111, 114, 97, 103, 101>>                        \* storage
S_network == <<110, 101, 116, 119, 111, 114, 107>>                       \* network
S_tabs == <<116, 97, 98, 115>>                                           \* tabs
S_ai == <<97, 105>>                                                      \* ai
S_music == <<109, 117, 115, 105, 99>>                                    \* music
S_popups == <<112, 111, 112, 117, 112, 115>>                             \* popups
S_cross_storage == <<99, 114, 111, 115, 115, 95, 115, 116, 111, 114, 97, 103, 101>>
S_cross_storage_write == S_cross_storage \o <<95, 119, 114, 105, 116, 101>>
S_sidebar == <<115, 105, 100, 101, 98, 97, 114>>                         \* sidebar
S_popup == <<112, 111, 112, 117, 112>>                                   \* popup
S_background == <<98, 97, 99, 107, 103, 114, 111, 117, 110, 100>>        \* background
S_comma_space == <<44, 32>>                                              \* ", "

ALLOWED_PERMISSIONS ==
    << Str(S_storage), Str(S_network), Str(S_tabs), Str(S_ai), Str(S_music),
       Str(S_popups), Str(S_cross_storage), Str(S_cross_storage_write) >>

ALLOWED_TYPES == << Str(S_sidebar), Str(S_popup), Str(S_background) >>

NAME_MAX == 50
DESCRIPTION_MAX == 300
LARGE_FILE_COUNT == 50

\* Array.prototype.includes
Includes(list, v) == \E k \in 1..Len(list) : list[k] = v

\* a non-negative integer in decimal
RECURSIVE DecimalText(_)
DecimalText(n) ==
    IF n < 10 THEN <<48 + n>> ELSE DecimalText(n \div 10) \o <<48 + (n % 10)>>

\* strings joined with a separator
RECURSIVE JoinStrings(_, _)
JoinStrings(ss, sep) ==
    IF ss = <<>> THEN <<>>
    ELSE IF Len(ss) = 1 THEN ss[1]
    ELSE ss[1] \o sep \o JoinStrings(Tail(ss), sep)

\* String(v), as a template literal and RegExp.prototype.test convert v;
\* inside Array.prototype.join null and undefined are the empty string
RECURSIVE ToText(_)
ToText(v) ==
    CASE v.t = "string"    -> v.s
      [] v.t = "number"    -> DecimalText(v.n)
      [] v.t = "boolean"   -> IF v.b THEN <<116, 114, 117, 101>> ELSE <<102, 97, 108, 115, 101>>
      [] v.t = "null"      -> <<110, 117, 108, 108>>
      [] v.t = "undefined" -> <<117, 110, 100, 101, 102, 105, 110, 101, 100>>
      [] v.t = "array"     ->
            JoinStrings([k \in 1..Len(v.a) |->
                            IF v.a[k].t \in {"null", "undefined"} THEN <<>> ELSE ToText(v.a[k])],
                        <<44>>)
      [] OTHER             ->
            <<91, 111, 98, 106, 101, 99, 116, 32, 79, 98, 106, 101, 99, 116, 93>>

\* values.join(sep)
Join(values, sep) ==
    JoinStrings([k \in 1..Len(values) |->
                    IF values[k].t \in {"null", "undefined"} THEN <<>> ELSE ToText(values[k])],
                sep)

\* /^\d+\.\d+\.\d+$/ run over s from position k: dots is the number of
\* separators passed, digits whether the current group has a digit yet
RECURSIVE SemverScan(_, _, _, _)
SemverScan(s, k, dots, digits) ==
    IF k > Len(s) THEN dots = 2 /\ digits
    ELSE IF s[k] \in 48..57 THEN SemverScan(s, k + 1, dots, TRUE)
    ELSE IF s[k] = 46 /\ digits /\ dots < 2 THEN SemverScan(s, k + 1, dots + 1, FALSE)
    ELSE FALSE

SemverTest(v) == SemverScan(ToText(v), 1, 0, FALSE)

\* manifest.<key>: undefined unless the manifest is an object that has it
Get(m, key) == IF m.t = "object" THEN m.o[key] ELSE Undefined

\* v.length > n
LengthExceeds(v, n) ==
    \/ v.t = "string" /\ Len(v.s) > n
    \/ v.t = "array" /\ Len(v.a) > n

\* a message: its template and the texts interpolated into it
Message(msg, args) == [msg |-> msg, args |-> args]
When(cond, message) == IF cond THEN <<message>> ELSE <<>>

\* faulty variant: only the first of the unknown permissions is kept
UnknownFirstOnly(perms) ==
    LET u == SelectSeq(perms, LAMBDA p : ~Includes(ALLOWED_PERMISSIONS, p))
    IN  IF u = <<>> THEN u ELSE <<u[1]>>

\* manifest.permissions.filter(p => !ALLOWED_PERMISSIONS.includes(p))
UnknownPermissions(perms) ==
    SelectSeq(perms, LAMBDA p : ~Includes(ALLOWED_PERMISSIONS, p))

ManifestErrors(m) ==
    LET name        == Get(m, "name")
        version     == Get(m, "version")
        description == Get(m, "description")
        author      == Get(m, "author")
        main        == Get(m, "main")
        type        == Get(m, "type")
        permissions == Get(m, "permissions")
    IN  Concat(<<
          When(~Truthy(name) \/ name.t # "string",
               Message("Missing or invalid \"name\" field", <<>>)),
          When(~Truthy(version) \/ ~SemverTest(version),
               Message("Missing or invalid \"version\" (must be semver x.y.z)", <<>>)),
          When(~Truthy(description) \/ description.t # "string",
               Message("Missing or invalid \"description\" field", <<>>)),
          When(~Truthy(author) \/ author.t # "string",
               Message("Missing or invalid \"author\" field", <<>>)),
          When(~Truthy(main) \/ main.t # "string",
               Message("Missing or invalid \"main\" entry file", <<>>)),
          When(Truthy(type) /\ ~Includes(ALLOWED_TYPES, type),
               Message("Invalid \"type\": ${manifest.type}. Must be one of: ${ALLOWED_TYPES.join(', ')}",
                       <<ToText(type), Join(ALLOWED_TYPES, S_comma_space)>>)),
          IF Truthy(permissions)
          THEN IF permissions.t # "array"
               THEN <<Message("\"permissions\" must be an array", <<>>)>>
               ELSE When(UnknownPermissions(permissions.a) # <<>>,
                         Message("Unknown permissions: ${unknown.join(', ')}",
                                 <<Join(UnknownPermissions(permissions.a), S_comma_space)>>))
          ELSE <<>>,
          When(Truthy(name) /\ LengthExceeds(name, NAME_MAX),
               Message("Name must be 50 characters or less", <<>>)),
          When(Truthy(description) /\ LengthExceeds(description, DESCRIPTION_MAX),
               Message("Description must be 300 characters or less", <<>>)) >>)

\* faulty variant: the security warnings are skipped when a permission is unknown
ManifestWarningsKnownOnly(m) ==
    LET permissions == Get(m, "permissions")
    IN  IF Truthy(permissions) /\ permissions.t = "array"
           /\ UnknownPermissions(permissions.a) = <<>>
        THEN Concat(<<
               When(Includes(permissions.a, Str(S_network)),
                    Message("Extension requests NETWORK access - can make external HTTP requests", <<>>)),
               When(Includes(permissions.a, Str(S_cross_storage_write)),
                    Message("Extension requests CROSS_STORAGE_WRITE - can write to other extensions' storage", <<>>)),
               When(Includes(permissions.a, Str(S_tabs)),
                    Message("Extension requests TABS access - can open new browser tabs", <<>>)) >>)
        ELSE <<>>

ManifestWarnings(m) ==
    LET permissions == Get(m, "permissions")
    IN  IF Truthy(permissions) /\ permissions.t = "array"
        THEN Concat(<<
               When(Includes(permissions.a, Str(S_network)),
                    Message("Extension requests NETWORK access - can make external HTTP requests", <<>>)),
               When(Includes(permissions.a, Str(S_cross_storage_write)),
                    Message("Extension requests CROSS_STORAGE_WRITE - can write to other extensions' storage", <<>>)),
               When(Includes(permissions.a, Str(S_tabs)),
                    Message("Extension requests TABS access - can open new browser tabs", <<>>)) >>)
        ELSE <<>>

\* faulty variant: validation stops at the first error
ValidateManifestFirstError(m) ==
    [valid    |-> ManifestErrors(m) = <<>>,
     errors   |-> IF ManifestErrors(m) = <<>> THEN <<>> ELSE <<ManifestErrors(m)[1]>>,
     warnings |-> ManifestWarnings(m)]

ValidateManifest(m) ==
    [valid    |-> Len(ManifestErrors(m)) = 0,
     errors   |-> ManifestErrors(m),
     warnings |-> ManifestWarnings(m)]

X_jsx == <<46, 106, 115, 120>>          \* .jsx
X_js == <<46, 106, 115>>                \* .js
X_html == <<46, 104, 116, 109, 108>>    \* .html
X_exe == <<46, 101, 120, 101>>          \* .exe
X_dll == <<46, 100, 108, 108>>          \* .dll
X_bat == <<46, 98, 97, 116>>            \* .bat
X_cmd == <<46, 99, 109, 100>>           \* .cmd
X_sh == <<46, 115, 104>>                \* .sh
X_ps1 == <<46, 112, 115, 49>>           \* .ps1
X_node == <<46, 110, 111, 100, 101>>    \* .node
X_wasm == <<46, 119, 97, 115, 109>>     \* .wasm

\* the filter of the security check
Suspicious(f) ==
    \/ EndsWith(f, X_exe) \/ EndsWith(f, X_dll) \/ EndsWith(f, X_bat)
    \/ EndsWith(f, X_cmd) \/ EndsWith(f, X_sh) \/ EndsWith(f, X_ps1)
    \/ EndsWith(f, X_node) \/ EndsWith(f, X_wasm)

FilesErrors(fl) ==
    LET hasManifest == \E k \in 1..Len(fl) :
                          fl[k] = S_manifest_json \/ EndsWith(fl[k], S_slash_manifest_json)
        hasMain     == \E k \in 1..Len(fl) :
                          EndsWith(fl[k], X_jsx) \/ EndsWith(fl[k], X_js) \/ EndsWith(fl[k], X_html)
        suspicious  == SelectSeq(fl, Suspicious)
    IN  Concat(<<
          When(~hasManifest, Message("Missing manifest.json in root of zip", <<>>)),
          When(~hasMain, Message("No entry file found (.jsx, .js, or .html)", <<>>)),
          When(Len(suspicious) # 0,
               Message("Forbidden file types found: ${suspicious.join(', ')}",
                       <<JoinStrings(suspicious, S_comma_space)>>)) >>)

FilesWarnings(fl) ==
    When(Len(fl) > LARGE_FILE_COUNT,
         Message("Large extension: ${fileList.length} files", <<DecimalText(Len(fl))>>))

\* faulty variant: the security check runs only when an entry file was found
ValidateFilesElseIf(fl) ==
    LET all == FilesErrors(fl)
        cut == SelectSeq(all, LAMBDA e : e.args = <<>>)
    IN  [valid    |-> all = <<>>,
         errors   |-> IF Len(cut) = 0 THEN all ELSE cut,
         warnings |-> FilesWarnings(fl)]

ValidateFiles(fl) ==
    [valid    |-> Len(FilesErrors(fl)) = 0,
     errors   |-> FilesErrors(fl),
     warnings |-> FilesWarnings(fl)]

\* const manifestResult = validateManifest(manifest)
ValidateManifestCall ==
    /\ pc = "validateManifest"
    /\ manifestResult' = ValidateManifest(result.manifest)
    /\ pc' = "manifestValidated"
    /\ UNCHANGED <<upload, buffer, eocdOffset, cdEntries, cdOffset, i, fileList, manifest,
                   faulted, result, filesResult>>
    /\ HandlerUnchanged

\* const filesResult = validateFiles(fileList)
ValidateFilesCall ==
    /\ pc = "validateFiles"
    /\ filesResult' = ValidateFiles(result.fileList)
    /\ pc' = "filesValidated"
    /\ UNCHANGED <<upload, buffer, eocdOffset, cdEntries, cdOffset, i, fileList, manifest,
                   faulted, result, manifestResult>>
    /\ HandlerUnchanged


----------------------------------------------------------------------------
(* SpecValidate: the two validators on manifests and file lists drawn from  *)
(* pools of values.                                                         *)

Repeat(c, n) == [k \in 1..n |-> c]

NameValues ==
    { Undefined, Null, Str(<<>>), Str(<<65>>), Num(7),
      Str(Repeat(65, NAME_MAX)), Str(Repeat(65, NAME_MAX + 1)) }

VersionValues ==
    { Undefined, Num(1),
      Str(<<49, 46, 48, 46, 48>>),                        \* 1.0.0
      Str(<<49, 48, 46, 50, 48, 46, 51, 48>>),            \* 10.20.30
      Str(<<49, 46, 48>>),                                \* 1.0
      Str(<<118, 49, 46, 48, 46, 48>>),                   \* v1.0.0
      Str(<<49, 46, 48, 46, 48, 45, 98, 101, 116, 97>>),  \* 1.0.0-beta
      Str(<<49, 46, 46, 48>>),                            \* 1..0
      Arr(<<Str(<<49, 46, 48, 46, 48>>)>>) }              \* ["1.0.0"]

DescriptionValues ==
    { Undefined, Str(<<100>>),
      Str(Repeat(100, DESCRIPTION_MAX)), Str(Repeat(100, DESCRIPTION_MAX + 1)) }

AuthorValues == { Undefined, Str(<<97>>), Bool(TRUE) }

MainValues == { Undefined, Str(S_main_js) }

S_bogus == <<98, 111, 103, 117, 115>>     \* bogus
S_evil == <<101, 118, 105, 108>>          \* evil

TypeValues ==
    { Undefined, Str(S_sidebar), Str(S_popup), Str(S_background), Str(S_bogus),
      Str(<<>>), Num(0), Bool(FALSE), Null }

PermissionsValues ==
    { Undefined, Null, Num(0), Bool(FALSE), Str(<<>>), Str(S_storage),
      Arr(<<>>), Arr(<<Str(S_storage)>>),
      Arr(<<Str(S_network), Str(S_bogus)>>),
      Arr(<<Str(S_network), Str(S_network)>>),
      Arr(<<Str(S_bogus), Str(S_tabs), Str(S_evil)>>),
      Arr(<<Str(S_tabs), Str(S_cross_storage_write), Str(S_network)>>),
      Arr(<<Num(5), Null>>),
      Arr(ALLOWED_PERMISSIONS) }

Manifest(name, version, description, author, main, type, permissions) ==
    Obj([name |-> name, version |-> version, description |-> description,
         author |-> author, main |-> main, type |-> type, permissions |-> permissions,
         icon |-> Undefined, category |-> Undefined, api_version |-> Undefined])

ManifestInputs ==
    \* every combination of the required fields, the optional ones absent or wrong
    { Manifest(n, v, d, a, m, op[1], op[2]) :
        n \in NameValues, v \in VersionValues, d \in DescriptionValues,
        a \in AuthorValues, m \in MainValues,
        op \in { <<Undefined, Undefined>>,
                 <<Str(S_bogus), Arr(<<Str(S_network), Str(S_bogus)>>)>> } }
    \* every combination of the optional fields, the required ones right or not
    \cup { Manifest(n, Str(<<49, 46, 48, 46, 48>>), Str(<<100>>), Str(<<97>>), Str(S_main_js), ty, pe) :
        n \in {Str(<<65>>), Undefined}, ty \in TypeValues, pe \in PermissionsValues }
    \* what JSON.parse may give that is no object
    \cup { Num(1), Arr(<<>>), Bool(TRUE) }

FilePool ==
    { S_manifest_json, S_main_js,
      <<109, 97, 105, 110, 46, 101, 120, 101>>,                      \* main.exe
      <<97, 112, 112, 46, 106, 115, 120>>,                           \* app.jsx
      <<105, 110, 100, 101, 120, 46, 104, 116, 109, 108>>,           \* index.html
      S_myext \o S_slash_manifest_json,                              \* myext/manifest.json
      <<97>> \o S_manifest_json,                                     \* amanifest.json
      <<108, 105, 98, 46, 100, 108, 108>>,                           \* lib.dll
      <<114, 117, 110, 46, 115, 104>>,                               \* run.sh
      <<97, 46, 110, 111, 100, 101>>,                                \* a.node
      <<109, 111, 100, 46, 119, 97, 115, 109>>,                      \* mod.wasm
      <<120, 46, 98, 97, 116>>,                                      \* x.bat
      <<121, 46, 99, 109, 100>>,                                     \* y.cmd
      <<122, 46, 112, 115, 49>>,                                     \* z.ps1
      <<114, 101, 97, 100, 109, 101, 46, 109, 100>>,                 \* readme.md
      <<106, 115>> }                                                 \* js

\* manifest.json, then main.js up to n entries, the last entry as given
LongList(n, last) ==
    [k \in 1..n |-> IF k = 1 THEN S_manifest_json ELSE IF k = n THEN last ELSE S_main_js]

FileListInputs ==
    UNION {[1..n -> FilePool] : n \in 0..MaxFiles}
        \cup { LongList(n, last) :
                 n \in {LARGE_FILE_COUNT, LARGE_FILE_COUNT + 1},
                 last \in {S_main_js, <<109, 97, 105, 110, 46, 101, 120, 101>>} }

InitValidate ==
    /\ upload = NoUpload
    /\ buffer = Pack(<<>>, NoDamage)
    /\ fileList = <<>>
    /\ manifest = Null
    /\ \/ /\ pc = "validateManifest"
          /\ result \in {[manifest |-> m, fileList |-> <<>>] : m \in ManifestInputs}
       \/ /\ pc = "validateFiles"
          /\ result \in {[manifest |-> EmptyObject, fileList |-> fl] : fl \in FileListInputs}
    /\ Idle

NextValidate ==
    \/ ValidateManifestCall
    \/ ValidateFilesCall

SpecValidate == InitValidate /\ [][NextValidate]_vars


----------------------------------------------------------------------------
(* What the claims about the validators are stated in.                      *)

ManifestValidated == pc = "manifestValidated"
FilesValidated == pc = "filesValidated"

HasMessage(messages, msg) == \E k \in 1..Len(messages) : messages[k].msg = msg
TheMessage(messages, msg) == messages[CHOOSE k \in 1..Len(messages) : messages[k].msg = msg]

\* three runs of digits separated by two dots, and nothing else
SemverShape(s) ==
    \E p, q \in 1..Len(s) :
        /\ 1 < p /\ p + 1 < q /\ q < Len(s)
        /\ s[p] = 46 /\ s[q] = 46
        /\ \A k \in 1..Len(s) : (k # p /\ k # q) => s[k] \in 48..57

NonEmptyString(v) == v.t = "string" /\ Len(v.s) >= 1

\* the rules of the required fields
NameRule(m)        == NonEmptyString(Get(m, "name")) /\ Len(Get(m, "name").s) <= NAME_MAX
VersionRule(m)     == /\ Get(m, "version").t \notin {"undefined", "null"}
                      /\ SemverShape(ToText(Get(m, "version")))
DescriptionRule(m) == /\ NonEmptyString(Get(m, "description"))
                      /\ Len(Get(m, "description").s) <= DESCRIPTION_MAX
AuthorRule(m)      == NonEmptyString(Get(m, "author"))
MainRule(m)        == NonEmptyString(Get(m, "main"))

\* text cut at every ", "
RECURSIVE SplitList(_)
SplitList(s) ==
    LET cuts == {k \in 1..(Len(s) - 1) : s[k] = 44 /\ s[k + 1] = 32}
    IN  IF cuts = {} THEN <<s>>
        ELSE <<SubSeq(s, 1, Least(cuts) - 1)>> \o SplitList(SubSeq(s, Least(cuts) + 2, Len(s)))

(* C8. validateManifest evaluates every rule, whatever the others give: the *)
(* error list holds an error of the name rule exactly when the name is not  *)
(* a non-empty string of at most 50 characters, of the version rule exactly *)
(* when the version is missing or is not three dot-separated runs of digits *)
(* ("1.0.0" passes; "1.0", "v1.0.0", "1.0.0-beta" do not), and likewise for *)
(* description (at most 300 characters), author and main; valid is true     *)
(* exactly when the error list is empty.                                    *)
C8_EveryRuleEvaluated ==
    ManifestValidated =>
        LET m == result.manifest
            e == manifestResult.errors
        IN  /\ ~NameRule(m) <=> (\/ HasMessage(e, "Missing or invalid \"name\" field")
                                 \/ HasMessage(e, "Name must be 50 characters or less"))
            /\ ~VersionRule(m) <=>
                   HasMessage(e, "Missing or invalid \"version\" (must be semver x.y.z)")
            /\ ~DescriptionRule(m) <=>
                   (\/ HasMessage(e, "Missing or invalid \"description\" field")
                    \/ HasMessage(e, "Description must be 300 characters or less"))
            /\ ~AuthorRule(m) <=> HasMessage(e, "Missing or invalid \"author\" field")
            /\ ~MainRule(m) <=> HasMessage(e, "Missing or invalid \"main\" entry file")
            /\ manifestResult.valid <=> (e = <<>>)
            /\ (Get(m, "version") = Str(<<49, 46, 48, 46, 48>>)) => VersionRule(m)
            /\ (Get(m, "version") \in { Str(<<49, 46, 48>>), Str(<<118, 49, 46, 48, 46, 48>>),
                                        Str(<<49, 46, 48, 46, 48, 45, 98, 101, 116, 97>>) })
                  => ~VersionRule(m)

\* all five rules of the required fields are violated at once, and reported
C8_Witness ==
    /\ ManifestValidated
    /\ result.manifest.t = "object"
    /\ ~NameRule(result.manifest) /\ ~VersionRule(result.manifest)
    /\ ~DescriptionRule(result.manifest) /\ ~AuthorRule(result.manifest)
    /\ ~MainRule(result.manifest)
    /\ Get(result.manifest, "version") = Str(<<49, 46, 48, 46, 48, 45, 98, 101, 116, 97>>)
    /\ Len(manifestResult.errors) >= 5

----------------------------------------------------------------------------
AllowedTypeNames == {S_sidebar, S_popup, S_background}
AllowedPermissionNames ==
    {S_storage, S_network, S_tabs, S_ai, S_music, S_popups, S_cross_storage,
     S_cross_storage_write}

TypeAllowed(v) == v.t = "string" /\ v.s \in AllowedTypeNames
PermissionAllowed(v) == v.t = "string" /\ v.s \in AllowedPermissionNames
PermissionsAllowed(v) ==
    v.t = "array" /\ \A k \in 1..Len(v.a) : PermissionAllowed(v.a[k])

\* the elements of a permissions list that are not allowed, as the error prints them
UnknownTexts(v) ==
    LET u == SelectSeq(v.a, LAMBDA p : ~PermissionAllowed(p))
    IN  [k \in 1..Len(u) |-> IF u[k].t = "null" THEN <<>> ELSE ToText(u[k])]

Present(v) == v # Undefined

(* C9 (as claimed). Whenever the manifest has a type field, whatever its    *)
(* value (empty string, zero, false and null included), the result is valid *)
(* only if the value is an allowed type; whenever it has a permissions      *)
(* field, the result is valid only if the value is a list of allowed        *)
(* permissions.                                                             *)
C9_PresentIsChecked ==
    (ManifestValidated /\ manifestResult.valid) =>
        /\ Present(Get(result.manifest, "type")) => TypeAllowed(Get(result.manifest, "type"))
        /\ Present(Get(result.manifest, "permissions"))
              => PermissionsAllowed(Get(result.manifest, "permissions"))

(* C9 (amended). Whenever the manifest's type is truthy, the result is      *)
(* valid only if it is one of sidebar, popup, background; whenever its      *)
(* permissions value is truthy, the result is valid only if it is a list    *)
(* whose every element is an allowed permission, and the error lists the    *)
(* unknown elements one by one, in order.  A falsy value (empty string, 0,  *)
(* false, null) is treated like an absent field: it raises no error.        *)
C9_TruthyIsChecked ==
    ManifestValidated =>
        LET type == Get(result.manifest, "type")
            perm == Get(result.manifest, "permissions")
            e    == manifestResult.errors
            tmsg == "Invalid \"type\": ${manifest.type}. Must be one of: ${ALLOWED_TYPES.join(', ')}"
            umsg == "Unknown permissions: ${unknown.join(', ')}"
            amsg == "\"permissions\" must be an array"
        IN  /\ (Truthy(type) /\ manifestResult.valid) => TypeAllowed(type)
            /\ (Truthy(perm) /\ manifestResult.valid) => PermissionsAllowed(perm)
            /\ HasMessage(e, tmsg) <=> (Truthy(type) /\ ~TypeAllowed(type))
            /\ HasMessage(e, amsg) <=> (Truthy(perm) /\ perm.t # "array")
            /\ HasMessage(e, umsg) <=> (perm.t = "array" /\ ~PermissionsAllowed(perm))
            /\ HasMessage(e, umsg) =>
                   SplitList(TheMessage(e, umsg).args[1]) = UnknownTexts(perm)

\* a list with two unknown permissions around a known one: both are named
C9_Witness ==
    /\ ManifestValidated
    /\ ~manifestResult.valid
    /\ Get(result.manifest, "permissions") = Arr(<<Str(S_bogus), Str(S_tabs), Str(S_evil)>>)
    /\ HasMessage(manifestResult.errors, "Unknown permissions: ${unknown.join(', ')}")
    /\ TheMessage(manifestResult.errors, "Unknown permissions: ${unknown.join(', ')}").args
          = << S_bogus \o S_comma_space \o S_evil >>

----------------------------------------------------------------------------
EntryExtensions == {X_jsx, X_js, X_html}
ForbiddenExtensions == {X_exe, X_dll, X_bat, X_cmd, X_sh, X_ps1, X_node, X_wasm}

HasExtension(f, exts) == \E x \in exts : EndsWith(f, x)

(* C10. validateFiles reports its errors independently and together: the    *)
(* missing-manifest error exactly when no entry equals manifest.json or     *)
(* ends with /manifest.json, the missing-entry-file error exactly when no   *)
(* entry ends with .jsx, .js or .html, the forbidden-file error exactly     *)
(* when some entry ends with a forbidden extension, and then it names every *)
(* such entry, in order; nothing else is an error, so a list of more than   *)
(* 50 entries only adds a warning.  [manifest.json, main.exe] gives the     *)
(* forbidden-file error naming main.exe and the missing-entry-file error.   *)
C10_FileErrorsTogether ==
    FilesValidated =>
        LET fl   == result.fileList
            e    == filesResult.errors
            bad  == SelectSeq(fl, LAMBDA f : HasExtension(f, ForbiddenExtensions))
            noManifest == \A k \in 1..Len(fl) :
                             fl[k] # S_manifest_json /\ ~EndsWith(fl[k], S_slash_manifest_json)
            noEntry    == \A k \in 1..Len(fl) : ~HasExtension(fl[k], EntryExtensions)
            fmsg == "Forbidden file types found: ${suspicious.join(', ')}"
        IN  /\ HasMessage(e, "Missing manifest.json in root of zip") <=> noManifest
            /\ HasMessage(e, "No entry file found (.jsx, .js, or .html)") <=> noEntry
            /\ HasMessage(e, fmsg) <=> (bad # <<>>)
            /\ HasMessage(e, fmsg) => SplitList(TheMessage(e, fmsg).args[1]) = bad
            /\ Len(e) = (IF noManifest THEN 1 ELSE 0) + (IF noEntry THEN 1 ELSE 0)
                          + (IF bad # <<>> THEN 1 ELSE 0)
            /\ filesResult.valid <=> (~noManifest /\ ~noEntry /\ bad = <<>>)
            /\ (filesResult.warnings # <<>>) <=> (Len(fl) > LARGE_FILE_COUNT)
            /\ (fl = <<S_manifest_json, <<109, 97, 105, 110, 46, 101, 120, 101>> >>)
                  => /\ Len(e) = 2
                     /\ TheMessage(e, fmsg).args = << <<109, 97, 105, 110, 46, 101, 120, 101>> >>
                     /\ HasMessage(e, "No entry file found (.jsx, .js, or .html)")

\* [manifest.json, main.exe]: two errors in one result
C10_Witness ==
    /\ FilesValidated
    /\ result.fileList = <<S_manifest_json, <<109, 97, 105, 110, 46, 101, 120, 101>> >>
    /\ Len(filesResult.errors) = 2
    /\ ~filesResult.valid

\* a list of 51 entries is valid and carries the warning
C10_LargeListReached ==
    /\ FilesValidated
    /\ Len(result.fileList) = LARGE_FILE_COUNT + 1
    /\ filesResult.valid
    /\ filesResult.warnings # <<>>

----------------------------------------------------------------------------
(* The identifier: line 209 of src/api/index.js,                            *)
(*   (manifest.name || 'ext').toLowerCase()                                 *)
(*       .replace(/[^a-z0-9]+/g, '-').replace(/(^-|-$)/g, '')               *)

HYPHEN == 45
S_ext == <<101, 120, 116>>

\* a || b
Or(a, b) == IF Truthy(a) THEN a ELSE b

\* String.prototype.toLowerCase on the characters the inputs carry: the
\* capitals of ASCII and of Latin-1, each one character below and above
LowerChar(c) ==
    IF c \in 65..90 \/ (c \in 192..222 /\ c # 215) THEN c + 32 ELSE c
ToLowerCase(s) == [k \in 1..Len(s) |-> LowerChar(s[k])]

\* [a-z0-9]
IsSlugChar(c) == c \in 97..122 \/ c \in 48..57

\* faulty variant: every character outside [a-z0-9] becomes a hyphen of its own
RECURSIVE ReplaceEach(_)
ReplaceEach(s) ==
    IF s = <<>> THEN <<>>
    ELSE <<IF IsSlugChar(s[1]) THEN s[1] ELSE HYPHEN>> \o ReplaceEach(Tail(s))

\* .replace(/[^a-z0-9]+/g, '-'): every maximal run of other characters
\* becomes one hyphen
RECURSIVE ReplaceRuns(_)
ReplaceRuns(s) ==
    IF s = <<>> THEN <<>>
    ELSE IF IsSlugChar(s[1]) THEN <<s[1]>> \o ReplaceRuns(Tail(s))
    ELSE IF Len(s) > 1 /\ ~IsSlugChar(s[2]) THEN ReplaceRuns(Tail(s))
    ELSE <<HYPHEN>> \o ReplaceRuns(Tail(s))

\* .replace(/(^-|-$)/g, ''): a hyphen at the start is removed, and one at the
\* end of what is left
TrimHyphens(s) ==
    LET t == IF s # <<>> /\ s[1] = HYPHEN THEN Tail(s) ELSE s
    IN  IF t # <<>> /\ t[Len(t)] = HYPHEN THEN SubSeq(t, 1, Len(t) - 1) ELSE t

TypeError == [t |-> "TypeError"]

\* the identifier of a manifest name; a TypeError when the name is a truthy
\* value that is no string (it has no toLowerCase)
ExtIdOf(name) ==
    LET base == Or(name, Str(S_ext))
    IN  IF base.t = "string"
        THEN Str(TrimHyphens(ReplaceRuns(ToLowerCase(base.s))))
        ELSE TypeError

----------------------------------------------------------------------------
(* The handler of POST /submit (src/api/index.js, lines 156-245), from the  *)
(* point where the request body has been received.  `upload` carries what   *)
(* busboy collected: the file's name, its chunks and the form fields.       *)

\* latest value of Date.now()
MaxClock == 2

S_zip == <<46, 122, 105, 112>>
S_submissions_slash == <<115, 117, 98, 109, 105, 115, 115, 105, 111, 110, 115, 47>>
S_Unknown == <<85, 110, 107, 110, 111, 119, 110>>
S_utilities == <<117, 116, 105, 108, 105, 116, 105, 101, 115>>
S_puzzle == <<112, 117, 122, 122, 108, 101>>
S_1_0 == <<49, 46, 48>>

\* the form fields the handler reads; one the form did not send is undefined
FieldKeys ==
    {"description", "author_name", "author_email", "author_website", "author_github",
     "author_twitter", "author_discord", "category"}

\* res.render('submit', { error, success, categories })
Render(error, success) == [view |-> "submit", error |-> error, success |-> success]

HandlerLocalsUnchanged ==
    UNCHANGED <<upload, buffer, eocdOffset, cdEntries, cdOffset, i, fileList, manifest,
                faulted, result, manifestResult, filesResult, extId, blob>>
StoresUnchanged == UNCHANGED <<blobs, submissions>>
OthersUnchanged == UNCHANGED <<current, parked>>

\* lines 180-182
RejectNoFile ==
    /\ pc = "received"
    /\ upload.chunks = 0
    /\ response' = Render(Message("No file uploaded.", <<>>), Null)
    /\ pc' = "responded"
    /\ HandlerLocalsUnchanged /\ StoresUnchanged /\ OthersUnchanged

\* lines 183-185
RejectNotZip ==
    /\ pc = "received"
    /\ upload.chunks # 0
    /\ ~EndsWith(upload.fileName, S_zip)
    /\ response' = Render(Message("Only .zip files are accepted.", <<>>), Null)
    /\ pc' = "responded"
    /\ HandlerLocalsUnchanged /\ StoresUnchanged /\ OthersUnchanged

\* lines 187-190: the chunks become the buffer, and parseZipContents is entered
ConcatChunks ==
    /\ pc = "received"
    /\ upload.chunks # 0
    /\ EndsWith(upload.fileName, S_zip)
    /\ buffer' = Pack(upload.entries, upload.damage)
    /\ pc' = "start"
    /\ UNCHANGED <<upload, eocdOffset, cdEntries, cdOffset, i, fileList, manifest, faulted,
                   result, manifestResult, filesResult, extId, blob, response>>
    /\ StoresUnchanged /\ OthersUnchanged

\* lines 192-194
RejectNoManifest ==
    /\ pc = "done"
    /\ ~Truthy(result.manifest)
    /\ response' = Render(Message("No manifest.json found in zip root. Each extension must include a manifest.json.", <<>>), Null)
    /\ pc' = "responded"
    /\ HandlerLocalsUnchanged /\ StoresUnchanged /\ OthersUnchanged

\* line 192, the test fails: on to validateManifest
ManifestFound ==
    /\ pc = "done"
    /\ Truthy(result.manifest)
    /\ pc' = "validateManifest"
    /\ UNCHANGED response
    /\ HandlerLocalsUnchanged /\ StoresUnchanged /\ OthersUnchanged

\* lines 198-200
RejectManifest ==
    /\ pc = "manifestValidated"
    /\ ~manifestResult.valid
    /\ response' = Render(Message("Manifest errors: ${manifestResult.errors.join('; ')}",
                                  manifestResult.errors), Null)
    /\ pc' = "responded"
    /\ HandlerLocalsUnchanged /\ StoresUnchanged /\ OthersUnchanged

\* faulty variant: validateFiles runs whatever validateManifest returned
ManifestCheckedAlways ==
    /\ pc = "manifestValidated"
    /\ pc' = "validateFiles"
    /\ UNCHANGED response
    /\ HandlerLocalsUnchanged /\ StoresUnchanged /\ OthersUnchanged

\* line 198, the test fails: on to validateFiles
ManifestAccepted ==
    /\ pc = "manifestValidated"
    /\ manifestResult.valid
    /\ pc' = "validateFiles"
    /\ UNCHANGED response
    /\ HandlerLocalsUnchanged /\ StoresUnchanged /\ OthersUnchanged

\* lines 204-206
RejectFiles ==
    /\ pc = "filesValidated"
    /\ ~filesResult.valid
    /\ response' = Render(Message("File errors: ${filesResult.errors.join('; ')}",
                                  filesResult.errors), Null)
    /\ pc' = "responded"
    /\ HandlerLocalsUnchanged /\ StoresUnchanged /\ OthersUnchanged

\* lines 241-244: the catch block of the handler
UploadFailed(message) ==
    Render(Message("Upload failed: ${err.message}", <<Message(message, <<>>)>>), Null)

\* lines 204 and 209: the test fails and the identifier is generated
GenerateExtId ==
    /\ pc = "filesValidated"
    /\ filesResult.valid
    /\ LET id == ExtIdOf(Get(result.manifest, "name"))
       IN  IF id = TypeError
           THEN /\ response' = UploadFailed("(manifest.name || \"ext\").toLowerCase is not a function")
                /\ pc' = "responded"
                /\ UNCHANGED extId
           ELSE /\ extId' = id
                /\ pc' = "put"
                /\ UNCHANGED response
    /\ UNCHANGED <<upload, buffer, eocdOffset, cdEntries, cdOffset, i, fileList, manifest,
                   faulted, result, manifestResult, filesResult, blob>>
    /\ StoresUnchanged /\ OthersUnchanged

\* line 212
BlobName(id, version, now) ==
    Concat(<<S_submissions_slash, ToText(id), <<HYPHEN>>, ToText(version), <<HYPHEN>>,
             DecimalText(now), S_zip>>)

\* lines 212-213: the archive is stored
PutBlob ==
    /\ pc = "put"
    /\ \E now \in 1..MaxClock :
          LET blobName == BlobName(extId, Get(result.manifest, "version"), now)
          IN  /\ blobs' = blobs \cup {[name |-> blobName, body |-> upload]}
              /\ blob' = [url |-> blobName]
    /\ pc' = "createSubmission"
    /\ UNCHANGED <<upload, buffer, eocdOffset, cdEntries, cdOffset, i, fileList, manifest,
                   faulted, result, manifestResult, filesResult, extId, response,
                   submissions>>
    /\ OthersUnchanged

\* line 213: put() rejects; the catch block answers
PutFails ==
    /\ pc = "put"
    /\ response' = UploadFailed("put")
    /\ pc' = "responded"
    /\ HandlerLocalsUnchanged /\ StoresUnchanged /\ OthersUnchanged

\* lines 216-234: the record handed to db.createSubmission
SubmissionRecord(m, fields, id, b) ==
    [ext_id         |-> id,
     name           |-> Get(m, "name"),
     version        |-> Get(m, "version"),
     description    |-> Or(Get(m, "description"), Or(fields["description"], Str(<<>>))),
     author         |-> Or(Get(m, "author"), Or(fields["author_name"], Str(S_Unknown))),
     author_email   |-> Or(fields["author_email"], Null),
     author_website |-> Or(fields["author_website"], Null),
     author_github  |-> Or(fields["author_github"], Null),
     author_twitter |-> Or(fields["author_twitter"], Null),
     author_discord |-> Or(fields["author_discord"], Null),
     category       |-> Or(fields["category"], Or(Get(m, "category"), Str(S_utilities))),
     icon           |-> Or(Get(m, "icon"), Str(S_puzzle)),
     type           |-> Or(Get(m, "type"), Str(S_sidebar)),
     permissions    |-> Or(Get(m, "permissions"), Arr(<<>>)),
     api_version    |-> Or(Get(m, "api_version"), Str(S_1_0)),
     blob_url       |-> b.url,
     manifest_json  |-> m]

\* lines 216-240: the submission is inserted (its id is the table's serial)
\* and the success page rendered with the warnings of both validators
CreateSubmission ==
    /\ pc = "createSubmission"
    /\ LET id == Len(submissions) + 1
           m  == result.manifest
       IN  /\ submissions' = Append(submissions,
                  [id |-> id, data |-> SubmissionRecord(m, upload.fields, extId, blob)])
           /\ response' = Render(Null,
                  [msg |-> "Extension \"${manifest.name}\" v${manifest.version} submitted for review! Submission #${submission.id}",
                   args |-> <<ToText(Get(m, "name")), ToText(Get(m, "version")), DecimalText(id)>>,
                   warnings |-> manifestResult.warnings \o filesResult.warnings])
    /\ pc' = "responded"
    /\ UNCHANGED blobs
    /\ HandlerLocalsUnchanged /\ OthersUnchanged

\* line 216: db.createSubmission() rejects; the catch block answers
CreateSubmissionFails ==
    /\ pc = "createSubmission"
    /\ response' = UploadFailed("createSubmission")
    /\ pc' = "responded"
    /\ HandlerLocalsUnchanged /\ StoresUnchanged /\ OthersUnchanged

----------------------------------------------------------------------------
(* SpecSubmit: the handler on requests that carry archives with whole       *)
(* manifests, intact or damaged.                                            *)

\* JSON.stringify of a manifest, the text a packager stores in manifest.json
KeyOrder ==
    <<"name", "version", "description", "author", "main", "type", "permissions",
      "icon", "category", "api_version">>

RECURSIVE Stringify(_)
Stringify(v) ==
    CASE v.t = "string" -> <<34>> \o v.s \o <<34>>
      [] v.t = "array"  ->
            <<91>> \o JoinStrings([k \in 1..Len(v.a) |-> Stringify(v.a[k])], <<44>>) \o <<93>>
      [] v.t = "object" ->
            LET keys == SelectSeq(KeyOrder, LAMBDA k : v.o[k] # Undefined)
            IN  <<123>> \o JoinStrings([k \in 1..Len(keys) |->
                                           <<34>> \o KeyText[keys[k]] \o <<34, 58>>
                                               \o Stringify(v.o[keys[k]])],
                                       <<44>>) \o <<125>>
      [] OTHER          -> ToText(v)

S_main_exe == <<109, 97, 105, 110, 46, 101, 120, 101>>
S_ext_zip == <<101, 120, 116, 46, 122, 105, 112>>
S_ext_tar == <<101, 120, 116, 46, 116, 97, 114>>
S_My_Cool_Ext == <<77, 121, 32, 67, 111, 111, 108, 32, 69, 120, 116, 33, 33>>
S_Ext_hyphens == <<45, 45, 45, 69, 120, 116, 45, 45, 45>>
S_bangs == <<33, 33, 33>>
S_Ext == <<69, 120, 116>>
S_1_0_0 == <<49, 46, 48, 46, 48>>
S_games == <<103, 97, 109, 101, 115>>

\* a manifest that passes validateManifest, by its name
GoodManifest(name) ==
    Manifest(Str(name), Str(S_1_0_0), Str(<<100>>), Str(<<97>>), Str(S_main_js),
             Undefined, Undefined)

SubmitManifests ==
    { GoodManifest(S_My_Cool_Ext), GoodManifest(S_Ext_hyphens), GoodManifest(S_bangs),
      \* valid, with warnings
      Manifest(Str(S_Ext), Str(S_1_0_0), Str(<<100>>), Str(<<97>>), Str(S_main_js),
               Str(S_popup), Arr(<<Str(S_network), Str(S_tabs)>>)),
      \* no name, a version that is no semver, an unknown permission
      Manifest(Undefined, Str(S_1_0), Str(<<100>>), Str(<<97>>), Str(S_main_js),
               Undefined, Arr(<<Str(S_network), Str(S_bogus)>>)) }

\* the files packed next to the manifest
Companions == { <<>>, <<S_main_js>>, <<S_main_exe>>, <<S_main_js, S_main_exe>> }

\* an archive: the manifest first, then the files, all below folder
Archive(folder, method, m, files) ==
    <<Entry(folder \o S_manifest_json, method, Stringify(m))>>
        \o [k \in 1..Len(files) |-> Entry(folder \o files[k], 0, <<>>)]

S_myext_slash == S_myext \o SLASH

SubmitArchives ==
    { Archive(folder, 0, m, files) :
        folder \in {<<>>, S_myext_slash}, m \in SubmitManifests, files \in Companions }
    \cup
    { <<>>,                                                         \* an empty archive
      <<Entry(S_main_js, 0, <<>>)>>,                                \* no manifest at all
      Archive(<<>>, 8, GoodManifest(S_Ext), <<S_main_js>>),         \* a DEFLATE manifest
      Archive(<<97, 47, 98, 47>>, 0, GoodManifest(S_Ext), <<S_main_js>>),   \* too deep
      \* the manifest in one folder, the entry file in another
      <<Entry(S_myext_slash \o S_manifest_json, 0, Stringify(GoodManifest(S_Ext))),
        Entry(S_other \o SLASH \o S_main_js, 0, <<>>)>>,
      \* a directory entry before the files of the folder
      <<Entry(S_myext_slash, 0, <<>>)>> \o Archive(S_myext_slash, 0, GoodManifest(S_Ext), <<S_main_js>>) }

\* the archives that are also sent damaged
DamagedBases ==
    { Archive(folder, 0, GoodManifest(S_Ext), <<S_main_js>>) : folder \in {<<>>, S_myext_slash} }

\* damage that sets the End Of Central Directory record back from the end of
\* the buffer: by the longest archive comment, by one byte more than that, and
\* by a second (empty) End Of Central Directory record
TailDamages == [kind : {"longComment", "beyondWindow", "secondEnd"}, at : {0}]

NoFields == [k \in FieldKeys |-> Undefined]
SomeFields ==
    [NoFields EXCEPT !["category"] = Str(S_games), !["author_email"] = Str(<<97, 64, 98>>)]

Request(es, d, fileName, chunks, fields) ==
    [entries |-> es, damage |-> d, fileName |-> fileName, chunks |-> chunks, fields |-> fields]

SubmitRequests ==
    { Request(es, NoDamage, S_ext_zip, 1, NoFields) : es \in SubmitArchives }
    \cup { Request(es, d, S_ext_zip, 1, NoFields) :
             es \in DamagedBases, d \in Damages(2) \cup TailDamages }
    \cup { Request(es, NoDamage, S_ext_tar, 1, NoFields) : es \in DamagedBases }
    \cup { Request(es, NoDamage, S_ext_zip, 0, NoFields) : es \in DamagedBases }
    \cup { Request(es, NoDamage, S_ext_zip, 1, SomeFields) : es \in DamagedBases }

NoBuffer == [bytes |-> <<>>, tail |-> 0]

InitSubmit ==
    /\ upload \in SubmitRequests
    /\ buffer = NoBuffer
    /\ pc = "received"
    /\ fileList = <<>>
    /\ manifest = Null
    /\ result = NoResult
    /\ Idle

NextSubmit ==
    \/ RejectNoFile
    \/ RejectNotZip
    \/ ConcatChunks
    \/ Next
    \/ RejectNoManifest
    \/ ManifestFound
    \/ ValidateManifestCall
    \/ RejectManifest
    \/ ManifestAccepted
    \/ ValidateFilesCall
    \/ RejectFiles
    \/ GenerateExtId
    \/ PutBlob
    \/ PutFails
    \/ CreateSubmission
    \/ CreateSubmissionFails

SpecSubmit == InitSubmit /\ [][NextSubmit]_vars

----------------------------------------------------------------------------
(* Claims about the submit flow.                                            *)

Responded == pc = "responded"
\* the reader has returned to the handler
ReaderReturned == result # NoResult
\* the errors the rendered page shows
ShownErrors == IF response.error = Null THEN <<>> ELSE response.error.args

\* C11: a submission whose manifest violates a manifest rule and whose file
\* list violates a file-list rule is answered after both validators ran, with
\* the errors of both, those of validateManifest followed by those of
\* validateFiles.
C11_ErrorsOfBothValidators ==
    (/\ Responded
     /\ ReaderReturned
     /\ Truthy(result.manifest)
     /\ ~ValidateManifest(result.manifest).valid
     /\ ~ValidateFiles(result.fileList).valid)
    => /\ manifestResult # NoResult
       /\ filesResult # NoResult
       /\ ShownErrors = manifestResult.errors \o filesResult.errors

\* the five rejections of the handler, by what decides them
NoFileCase == upload.chunks = 0
NotZipCase == ~NoFileCase /\ ~EndsWith(upload.fileName, S_zip)
NoManifestCase == ReaderReturned /\ ~Truthy(result.manifest)
ManifestErrorsCase == manifestResult # NoResult /\ ~manifestResult.valid
FileErrorsCase == filesResult # NoResult /\ ~filesResult.valid
Rejected ==
    NoFileCase \/ NotZipCase \/ NoManifestCase \/ ManifestErrorsCase \/ FileErrorsCase

\* put() or db.createSubmission() has been called, or is about to be
Persisting == blobs # {} \/ submissions # <<>> \/ pc \in {"put", "createSubmission"}

\* C12: the archive is stored and the submission inserted only after the
\* reader returned a manifest and both validators returned valid; on each of
\* the five rejection paths neither put() nor db.createSubmission() is called.
C12_RejectedNeverPersisted ==
    /\ [](Persisting => /\ ReaderReturned /\ Truthy(result.manifest)
                        /\ manifestResult # NoResult /\ manifestResult.valid
                        /\ filesResult # NoResult /\ filesResult.valid)
    /\ [](Rejected => ~Persisting)
    /\ [][(blobs' # blobs \/ submissions' # submissions) => ~Rejected]_vars

\* a submission rejected for its files, with nothing stored
C12_Witness ==
    /\ Responded
    /\ FileErrorsCase
    /\ response.error # Null
    /\ blobs = {} /\ submissions = <<>>

\* an accepted submission, stored and inserted
C12_AcceptedReached ==
    /\ Responded
    /\ response.success # Null
    /\ Cardinality(blobs) = 1 /\ Len(submissions) = 1

----------------------------------------------------------------------------
(* Claims about the warnings of validateManifest.                           *)

\* the capabilities that are warned about, and the warning of each
WarnedCapabilities == {S_network, S_cross_storage_write, S_tabs}
WarningOf(capability) ==
    CASE capability = S_network ->
            "Extension requests NETWORK access - can make external HTTP requests"
      [] capability = S_cross_storage_write ->
            "Extension requests CROSS_STORAGE_WRITE - can write to other extensions' storage"
      [] capability = S_tabs ->
            "Extension requests TABS access - can open new browser tabs"

\* how many of the messages are msg
Occurrences(messages, msg) == Cardinality({k \in 1..Len(messages) : messages[k].msg = msg})

\* every rule of sections 4.3 holds of the manifest
AllRulesHold(m) ==
    /\ NameRule(m) /\ VersionRule(m) /\ DescriptionRule(m) /\ AuthorRule(m) /\ MainRule(m)
    /\ Truthy(Get(m, "type")) => TypeAllowed(Get(m, "type"))
    /\ Truthy(Get(m, "permissions")) => PermissionsAllowed(Get(m, "permissions"))

\* C13: for a permissions list validateManifest gives exactly one warning for
\* each of network, cross_storage_write and tabs the list contains, and no
\* other warning, also when the list holds unknown permissions (then the
\* result is invalid and the error names them); warnings do not block: a
\* manifest that breaks no rule is valid whatever its warnings.
C13_WarningsPerCapability ==
    ManifestValidated =>
        LET m    == result.manifest
            perm == Get(m, "permissions")
            w    == manifestResult.warnings
            e    == manifestResult.errors
            umsg == "Unknown permissions: ${unknown.join(', ')}"
            held == {c \in WarnedCapabilities : \E k \in 1..Len(perm.a) : perm.a[k] = Str(c)}
        IN  /\ perm.t = "array" =>
                  /\ \A c \in WarnedCapabilities :
                        Occurrences(w, WarningOf(c)) = IF c \in held THEN 1 ELSE 0
                  /\ Len(w) = Cardinality(held)
            /\ (perm.t = "array" /\ ~PermissionsAllowed(perm)) =>
                  /\ ~manifestResult.valid
                  /\ HasMessage(e, umsg)
                  /\ SplitList(TheMessage(e, umsg).args[1]) = UnknownTexts(perm)
            /\ AllRulesHold(m) => manifestResult.valid

\* [network, bogus]: invalid, the error names bogus, the warning is about network
C13_Witness ==
    /\ ManifestValidated
    /\ Get(result.manifest, "permissions") = Arr(<<Str(S_network), Str(S_bogus)>>)
    /\ ~manifestResult.valid
    /\ \E k \in 1..Len(manifestResult.errors) : manifestResult.errors[k].args = <<S_bogus>>
    /\ manifestResult.warnings = <<Message(WarningOf(S_network), <<>>)>>

\* a manifest whose only findings are warnings
C13_OnlyWarningsReached ==
    /\ ManifestValidated
    /\ manifestResult.valid
    /\ Len(manifestResult.warnings) = 3

----------------------------------------------------------------------------
(* SpecSlug: the identifier generated for every short name over a small     *)
(* alphabet, for the names of the spec's examples and for names that are    *)
(* empty, absent or no string.                                              *)

\* longest name drawn from the alphabet
MaxNameLen == 3

\* A b 1 - space ! and a capital outside ASCII
SlugAlphabet == {65, 98, 49, HYPHEN, 32, 33, 201}

SlugNames ==
    { Str(s) : s \in UNION {[1..n -> SlugAlphabet] : n \in 0..MaxNameLen} }
        \cup { Str(S_My_Cool_Ext), Str(S_Ext_hyphens), Str(<<97, 33, 33, 98>>),
               Undefined, Null, Num(0), Num(7) }

AllValid == [valid |-> TRUE, errors |-> <<>>, warnings |-> <<>>]

\* the handler at line 208, both validators passed
InitSlug ==
    /\ upload = NoUpload
    /\ buffer = NoBuffer
    /\ pc = "filesValidated"
    /\ fileList = <<>>
    /\ manifest = Null
    /\ \E name \in SlugNames :
          result = [manifest |-> Manifest(name, Str(S_1_0_0), Str(<<100>>), Str(<<97>>),
                                          Str(S_main_js), Undefined, Undefined),
                    fileList |-> <<S_manifest_json, S_main_js>>]
    /\ eocdOffset = -1 /\ cdEntries = 0 /\ cdOffset = 0 /\ i = 0 /\ faulted = FALSE
    /\ manifestResult = AllValid
    /\ filesResult = AllValid
    /\ extId = Undefined /\ blob = Undefined /\ response = NoResult
    /\ Alone

SpecSlug == InitSlug /\ [][GenerateExtId]_vars

\* the identifier has been generated
Generated == pc = "put"

\* the text the identifier is made from: the name, "ext" for a falsy one
SlugSource(name) == IF Truthy(name) THEN name.s ELSE S_ext

\* the positions of the characters of [a-z0-9] in s, in order
LetterPositions(s) ==
    LET at == {k \in 1..Len(s) : IsSlugChar(s[k])}
    IN  [n \in 1..Cardinality(at) |->
            CHOOSE k \in at : Cardinality({j \in at : j <= k}) = n]

\* only [a-z0-9-], no two hyphens in a row, none at either end
WellFormedSlug(id) ==
    /\ \A k \in 1..Len(id) : IsSlugChar(id[k]) \/ id[k] = HYPHEN
    /\ \A k \in 1..(Len(id) - 1) : ~(id[k] = HYPHEN /\ id[k + 1] = HYPHEN)
    /\ id # <<>> => (id[1] # HYPHEN /\ id[Len(id)] # HYPHEN)

\* id is text with its runs of other characters collapsed: the same
\* characters of [a-z0-9] in the same order, two of them apart in id exactly
\* when they are apart in text
CollapsedForm(id, text) ==
    LET p == LetterPositions(id)
        q == LetterPositions(text)
    IN  /\ Len(p) = Len(q)
        /\ \A n \in 1..Len(p) : id[p[n]] = text[q[n]]
        /\ \A n \in 1..(Len(p) - 1) : (p[n + 1] = p[n] + 1) <=> (q[n + 1] = q[n] + 1)

\* C14: the identifier of a name (of "ext" for an empty or absent name) is its
\* lower-cased form with every maximal run of characters outside [a-z0-9]
\* replaced by one hyphen and the hyphens at both ends removed: it holds only
\* [a-z0-9-], no two adjacent hyphens and no hyphen at either end;
\* "My Cool Ext!!" gives "my-cool-ext" and "---Ext---" gives "ext".  (The
\* form determines the identifier, so equal names give equal identifiers.)
C14_SlugForm ==
    Generated =>
        LET name == Get(result.manifest, "name")
        IN  (name.t = "string" \/ ~Truthy(name)) =>
                /\ extId.t = "string"
                /\ WellFormedSlug(extId.s)
                /\ CollapsedForm(extId.s, ToLowerCase(SlugSource(name)))
                /\ name = Str(S_My_Cool_Ext) => extId = Str(<<109, 121, 45, 99, 111, 111, 108, 45, 101, 120, 116>>)
                /\ name = Str(S_Ext_hyphens) => extId = Str(S_ext)
                /\ ~Truthy(name) => extId = Str(S_ext)

C14_Witness ==
    /\ Generated
    /\ Get(result.manifest, "name") = Str(S_My_Cool_Ext)
    /\ extId = Str(<<109, 121, 45, 99, 111, 111, 108, 45, 101, 120, 116>>)

----------------------------------------------------------------------------
(* SpecPair: two requests in flight.  Every invocation of the handler has   *)
(* its own locals (the closure of app.post's callback, and inside it the    *)
(* locals of parseZipContents and of the validators); the blob store and    *)
(* the submissions table are shared.  Switch hands the processor to the     *)
(* other request; it may do so between any two steps, which covers the      *)
(* switches Node makes at the awaits of the handler.                        *)

\* the locals of the running invocation
Locals ==
    [id |-> current, upload |-> upload, buffer |-> buffer, pc |-> pc,
     eocdOffset |-> eocdOffset, cdEntries |-> cdEntries, cdOffset |-> cdOffset, i |-> i,
     fileList |-> fileList, manifest |-> manifest, faulted |-> faulted, result |-> result,
     manifestResult |-> manifestResult, filesResult |-> filesResult, extId |-> extId,
     blob |-> blob, response |-> response]

\* the locals of an invocation that has not run yet
FreshLocals(id, u) ==
    [id |-> id, upload |-> u, buffer |-> NoBuffer, pc |-> "received",
     eocdOffset |-> -1, cdEntries |-> 0, cdOffset |-> 0, i |-> 0,
     fileList |-> <<>>, manifest |-> Null, faulted |-> FALSE, result |-> NoResult,
     manifestResult |-> NoResult, filesResult |-> NoResult, extId |-> Undefined,
     blob |-> Undefined, response |-> NoResult]

\* faulty variant: fileList is one list of the module, shared by the invocations
SwitchSharingFileList ==
    /\ parked # <<>>
    /\ parked[1].pc # "responded"
    /\ LET f == parked[1]
       IN  /\ current' = f.id
           /\ upload' = f.upload /\ buffer' = f.buffer /\ pc' = f.pc
           /\ eocdOffset' = f.eocdOffset /\ cdEntries' = f.cdEntries
           /\ cdOffset' = f.cdOffset /\ i' = f.i
           /\ manifest' = f.manifest /\ faulted' = f.faulted
           /\ result' = f.result /\ manifestResult' = f.manifestResult
           /\ filesResult' = f.filesResult /\ extId' = f.extId
           /\ blob' = f.blob /\ response' = f.response
    /\ parked' = <<Locals>>
    /\ UNCHANGED <<fileList, blobs, submissions>>

\* the other invocation runs on: its locals become the running ones, those of
\* the running one are set aside; the stores are the same for both
Switch ==
    /\ parked # <<>>
    /\ parked[1].pc # "responded"
    /\ LET f == parked[1]
       IN  /\ current' = f.id
           /\ upload' = f.upload /\ buffer' = f.buffer /\ pc' = f.pc
           /\ eocdOffset' = f.eocdOffset /\ cdEntries' = f.cdEntries
           /\ cdOffset' = f.cdOffset /\ i' = f.i
           /\ fileList' = f.fileList /\ manifest' = f.manifest /\ faulted' = f.faulted
           /\ result' = f.result /\ manifestResult' = f.manifestResult
           /\ filesResult' = f.filesResult /\ extId' = f.extId
           /\ blob' = f.blob /\ response' = f.response
    /\ parked' = <<Locals>>
    /\ UNCHANGED <<blobs, submissions>>

\* the requests of the pairs: accepted, rejected for its manifest, rejected
\* for its files, damaged in its first entry (a fault), damaged in its second
\* (a break), not a .zip, without a file
PairRequests ==
    { Request(Archive(<<>>, 0, GoodManifest(S_Ext), <<S_main_js>>), NoDamage,
              S_ext_zip, 1, NoFields),
      Request(Archive(S_myext_slash, 0,
                      Manifest(Undefined, Str(S_1_0), Str(<<100>>), Str(<<97>>),
                               Str(S_main_js), Undefined,
                               Arr(<<Str(S_network), Str(S_bogus)>>)),
                      <<S_main_exe>>),
              NoDamage, S_ext_zip, 1, NoFields),
      Request(Archive(S_myext_slash, 0, GoodManifest(S_My_Cool_Ext), <<S_main_exe>>),
              NoDamage, S_ext_zip, 1, NoFields),
      Request(Archive(<<>>, 0, GoodManifest(S_Ext), <<S_main_js>>),
              [kind |-> "loff", at |-> 1], S_ext_zip, 1, NoFields),
      Request(Archive(<<>>, 0, GoodManifest(S_Ext), <<S_main_js>>),
              [kind |-> "cdsig", at |-> 2], S_ext_zip, 1, NoFields),
      Request(<<>>, NoDamage, S_ext_tar, 1, NoFields),
      Request(<<>>, NoDamage, S_ext_zip, 0, NoFields) }

InitPair ==
    /\ upload \in PairRequests
    /\ buffer = NoBuffer
    /\ pc = "received"
    /\ fileList = <<>>
    /\ manifest = Null
    /\ result = NoResult
    /\ eocdOffset = -1 /\ cdEntries = 0 /\ cdOffset = 0 /\ i = 0 /\ faulted = FALSE
    /\ manifestResult = NoResult /\ filesResult = NoResult
    /\ extId = Undefined /\ blob = Undefined /\ response = NoResult
    /\ blobs = {} /\ submissions = <<>>
    /\ current = 1
    /\ \E u \in PairRequests : parked = <<FreshLocals(2, u)>>

NextPair ==
    \/ NextSubmit
    \/ Switch

SpecPair == InitPair /\ [][NextPair]_vars

\* parseZipContents as a function of the buffer: the walk from entry k on,
\* and the whole call
RECURSIVE WalkFrom(_, _, _, _, _, _)
WalkFrom(b, n, k, cd, fl, m) ==
    IF k >= n THEN [fileList |-> fl, manifest |-> m]
    ELSE LET it == WalkIteration(b, cd, fl, m)
         IN  CASE it.kind = "next" ->
                    WalkFrom(b, n, k + 1, it.cdOffset, it.fileList, it.manifest)
               [] it.kind = "break" -> [fileList |-> fl, manifest |-> m]
               [] OTHER -> [fileList |-> it.fileList, manifest |-> it.manifest]

ParseZipContents(b) ==
    LET off == FindEOCD(b)
        w   == IF off < 0 THEN [fileList |-> <<>>, manifest |-> Null]
               ELSE WalkFrom(b, ReadUInt16LE(b, off + 10), 0, ReadUInt32LE(b, off + 16),
                             <<>>, Null)
    IN  [manifest |-> w.manifest, fileList |-> NormalizePaths(w.fileList)]

\* the step-by-step reader and the function agree, for a request on its own
ReaderAgrees == ReaderReturned => result = ParseZipContents(buffer)

----------------------------------------------------------------------------
(* Claims about concurrent requests.                                        *)

\* what an invocation with locals f has computed so far is what its request
\* gives when it is processed alone
AsAlone(f) ==
    LET alone == ParseZipContents(Pack(f.upload.entries, f.upload.damage))
    IN  /\ f.result # NoResult => f.result = alone
        /\ f.manifestResult # NoResult => f.manifestResult = ValidateManifest(alone.manifest)
        /\ f.filesResult # NoResult => f.filesResult = ValidateFiles(alone.fileList)
        /\ f.extId # Undefined => f.extId = ExtIdOf(Get(alone.manifest, "name"))
        /\ f.pc = "responded" =>
              \/ f.response.error = Null
              \/ f.response.error.msg = "Upload failed: ${err.message}"
              \/ /\ f.response.error.msg = "No file uploaded."
                 /\ f.upload.chunks = 0
              \/ /\ f.response.error.msg = "Only .zip files are accepted."
                 /\ ~EndsWith(f.upload.fileName, S_zip)
              \/ /\ f.response.error.msg = "No manifest.json found in zip root. Each extension must include a manifest.json."
                 /\ ~Truthy(alone.manifest)
              \/ /\ f.response.error.msg = "Manifest errors: ${manifestResult.errors.join('; ')}"
                 /\ f.response.error.args = ValidateManifest(alone.manifest).errors
              \/ /\ f.response.error.msg = "File errors: ${filesResult.errors.join('; ')}"
                 /\ f.response.error.args = ValidateFiles(alone.fileList).errors

\* a step of the running request (not a switch)
OwnStep == current' = current

\* C15: when two requests are processed concurrently, in every interleaving
\* of their steps the reader result, the validation results and the
\* identifier of each are those the request gets when processed alone; a
\* step of one request leaves the locals of the other as they were, and the
\* validators leave their inputs (the manifest, the file list) as they were.
C15_AsAlone ==
    /\ [](AsAlone(Locals) /\ \A k \in 1..Len(parked) : AsAlone(parked[k]))
    /\ [][OwnStep => parked' = parked]_vars
    /\ [][(OwnStep /\ pc \in {"validateManifest", "validateFiles"}) => result' = result]_vars

\* both requests answered, one accepted and the other rejected for its files
C15_Witness ==
    /\ parked # <<>>
    /\ Responded /\ parked[1].pc = "responded"
    /\ upload # parked[1].upload
    /\ result # NoResult /\ parked[1].result # NoResult
    /\ extId # Undefined
    /\ parked[1].filesResult # NoResult /\ ~parked[1].filesResult.valid

\* both requests in the middle of the central-directory walk
C15_BothWalkingReached ==
    /\ parked # <<>>
    /\ pc = "walk" /\ i = 1
    /\ parked[1].pc = "walk" /\ parked[1].i = 1

----------------------------------------------------------------------------
(* Claims about the search for the End Of Central Directory record.         *)

\* the offsets the search may visit
InWindow(off) ==
    /\ off >= 0
    /\ off >= BufLen(buffer) - 65557
    /\ off <= BufLen(buffer) - 22
\* the four bytes at off are 50 4b 05 06
HoldsEndSignature(off) ==
    /\ ByteAt(buffer, off) = 80 /\ ByteAt(buffer, off + 1) = 75
    /\ ByteAt(buffer, off + 2) = 5 /\ ByteAt(buffer, off + 3) = 6
NoEndInWindow ==
    \A off \in 0..(BufLen(buffer) - 22) : InWindow(off) => ~HoldsEndSignature(off)

\* the handler has called the reader and the search is over
Searched ==
    /\ pc \notin {"received", "start"}
    /\ upload.chunks # 0 /\ EndsWith(upload.fileName, S_zip)
NoManifestAnswer ==
    "No manifest.json found in zip root. Each extension must include a manifest.json."

\* C16: the record used is inside the window from length-22 down to
\* max(0, length-65557) and is the occurrence of the signature nearest the
\* end of the buffer within it; when no offset of the window holds the
\* signature the reader returns no manifest and an empty list and the
\* handler answers with the "no manifest found" error.
C16_EndRecordSearch ==
    /\ (Searched /\ ~NoEndInWindow) =>
          /\ eocdOffset >= 0
          /\ InWindow(eocdOffset)
          /\ HoldsEndSignature(eocdOffset)
          /\ \A off \in (eocdOffset + 1)..(BufLen(buffer) - 22) : ~HoldsEndSignature(off)
    /\ (Searched /\ NoEndInWindow) =>
          /\ faulted /\ eocdOffset = -1
          /\ ReaderReturned => (result.manifest = Null /\ result.fileList = <<>>)
          /\ Responded => (response.error # Null /\ response.error.msg = NoManifestAnswer)
          /\ blobs = {} /\ submissions = <<>>
    /\ (Searched /\ upload.damage.kind = "longComment") =>
          eocdOffset = BufLen(buffer) - 65557
    /\ (Searched /\ upload.damage.kind = "secondEnd") =>
          eocdOffset = BufLen(buffer) - 22

\* the signature lies one byte below the window: not found, and the handler
\* answers "no manifest found"
C16_Witness ==
    /\ Responded
    /\ upload.damage.kind = "beyondWindow"
    /\ HoldsEndSignature(BufLen(buffer) - 65558)
    /\ result = [manifest |-> Null, fileList |-> <<>>]
    /\ response.error.msg = NoManifestAnswer

\* the record at the lowest offset of the window is found
C16_LowestOffsetReached ==
    /\ Responded
    /\ upload.damage.kind = "longComment"
    /\ eocdOffset = BufLen(buffer) - 65557
    /\ Truthy(result.manifest)

----------------------------------------------------------------------------
(* Claims about the bounds of the central-directory walk.                   *)

\* a little-endian u16 of the buffer, byte by byte
U16At(off) == ByteAt(buffer, off) + 256 * ByteAt(buffer, off + 1)
\* the entry count the End Of Central Directory record declares
DeclaredCount == U16At(eocdOffset + 10)
\* the cursor is on four bytes of the buffer that are not 50 4b 01 02
CursorOffEntry ==
    /\ cdOffset >= 0 /\ cdOffset + 4 <= BufLen(buffer)
    /\ ~(/\ ByteAt(buffer, cdOffset) = 80 /\ ByteAt(buffer, cdOffset + 1) = 75
         /\ ByteAt(buffer, cdOffset + 2) = 1 /\ ByteAt(buffer, cdOffset + 3) = 2)
\* the loop is about to run an iteration
Walking == pc = "walk" /\ i < cdEntries

\* C17: the walk makes at most as many iterations as the declared entry
\* count, moves its cursor by 46 + name length + extra length + comment
\* length per entry, and at the first cursor position whose four bytes are
\* not the entry signature it stops without raising and keeps what it had;
\* the returned list is never longer than the declared count, and a count
\* of 0 gives an empty list and no manifest.
C17_WalkBounded ==
    /\ [](eocdOffset >= 0 =>
             /\ cdEntries = DeclaredCount
             /\ i <= cdEntries
             /\ Len(fileList) <= cdEntries
             /\ Returned => Len(result.fileList) <= DeclaredCount
             /\ (Returned /\ DeclaredCount = 0) =>
                    (result.fileList = <<>> /\ result.manifest = Null))
    /\ [][i' # i =>
             /\ i' = i + 1
             /\ cdOffset' = cdOffset + 46 + U16At(cdOffset + 28) + U16At(cdOffset + 30)
                               + U16At(cdOffset + 32)]_vars
    /\ [][(Walking /\ CursorOffEntry) =>
             /\ pc' = "normalize" /\ ~faulted'
             /\ i' = i /\ fileList' = fileList /\ manifest' = manifest]_vars

\* the walk stopped at a position that holds no entry, before the declared
\* count was reached, and returned the entry it had read
C17_Witness ==
    /\ Returned
    /\ ~faulted
    /\ i >= 1 /\ i < cdEntries
    /\ CursorOffEntry
    /\ Len(result.fileList) = i

\* an entry count of 0 in an archive that has an entry
C17_ZeroCountReached ==
    /\ Returned
    /\ eocdOffset >= 0 /\ DeclaredCount = 0
    /\ Len(Entries) = 1

----------------------------------------------------------------------------
(* SpecFlow: the handler on the requests of SpecSubmit and, entered at the  *)
(* call of parseZipContents, on the uploads of Spec.                        *)

SpecFlow == (Init \/ InitSubmit) /\ [][NextSubmit]_vars

MissingManifestError == "Missing manifest.json in root of zip"

\* the list holds manifest.json, at the root or in a folder
ListsManifest(fl) ==
    \E k \in 1..Len(fl) : fl[k] = S_manifest_json \/ EndsWith(fl[k], S_slash_manifest_json)

\* C18: whenever parseZipContents returns a manifest, the file list it
\* returns holds an entry that is manifest.json or ends with /manifest.json;
\* so validateFiles, which the handler calls only after a manifest was found,
\* never reports the missing-manifest error in the submit flow.
C18_ManifestIsListed ==
    /\ (ReaderReturned /\ result.manifest # Null) => ListsManifest(result.fileList)
    /\ filesResult # NoResult =>
          /\ Truthy(result.manifest)
          /\ ~HasMessage(filesResult.errors, MissingManifestError)
    /\ (Responded /\ response.error # Null) =>
          ~HasMessage(response.error.args, MissingManifestError)

\* a manifest found in a folder that is not stripped, and validateFiles run
C18_Witness ==
    /\ Responded
    /\ filesResult # NoResult
    /\ Truthy(result.manifest)
    /\ \E k \in 1..Len(result.fileList) :
          result.fileList[k] = S_myext_slash \o S_manifest_json
    /\ ~(\E k \in 1..Len(result.fileList) : result.fileList[k] = S_manifest_json)

----------------------------------------------------------------------------
(* Claims about the identifier of an accepted submission.                   *)

\* C19: every submission that passed both validators gets an identifier of
\* at least one character, in the blob name and on the submission record.
C19_IdentifierNotEmpty ==
    /\ extId # Undefined => Len(extId.s) >= 1
    /\ \A b \in blobs : ~StartsWith(b.name, S_submissions_slash \o <<HYPHEN>>)
    /\ \A k \in 1..Len(submissions) : Len(submissions[k].data.ext_id.s) >= 1

====
